---- MODULE Spec2Model ----
(***************************************************************************)
(* CAPES metrics collector: the tier classification core                   *)
(* (calcular_estrato_conferencia, calcular_estrato_revista,                *)
(* calcular_estrato_final) of lib_aux.py, duplicated in capes_metrics.py.  *)
(*                                                                         *)
(* Conventions.                                                            *)
(*   Optional[T] is a sequence of length 0 (None) or 1 (<<value>>).        *)
(*   A percentile (a Python float) is kept in tenths of a point, so 87.5   *)
(*   is 875 and 87.4 is 874; the code's float literals 87.5, 75.0, ...     *)
(*   are exact in binary, hence every >= of the code is exact on tenths.   *)
(***************************************************************************)
EXTENDS Integers, Sequences, FiniteSets

(***************************************************************************)
(* Bounds of the model.                                                    *)
(***************************************************************************)
\* largest H5-index a call is given
MaxH5 == 40
\* the H5-index inputs go down to -MaxNeg
MaxNeg == 6
\* percentile inputs lie within PctSpread tenths of a band edge
PctSpread == 3
\* largest number of journals in revistas.csv
MaxRevistas == 2
\* largest number of conferences in conferencias.csv
MaxConferencias == 2

(***************************************************************************)
(* Optional values.                                                        *)
(***************************************************************************)
None == <<>>
Some(x) == <<x>>

(***************************************************************************)
(* Input domains.                                                          *)
(***************************************************************************)
\* Optional[int]
H5Inputs == {None} \cup {Some(h) : h \in (0 - MaxNeg)..MaxH5}

\* the edges of the percentile bands and the ends of the nominal range 0..100
PctAnchors == {0, 125, 250, 375, 500, 625, 750, 875, 1000}

\* Optional[float], in tenths
PctInputs ==
  {None} \cup {Some(a + d) : a \in PctAnchors, d \in (0 - PctSpread)..PctSpread}

\* the labels a classifier can return
Labels == {"A1", "A2", "A3", "A4", "A5", "A6", "A7", "A8", "N/A", "N/C"}

\* Optional[str]
EstratoInputs == {None} \cup {Some(l) : l \in Labels}

(***************************************************************************)
(* lib_aux.calcular_estrato_conferencia                                    *)
(***************************************************************************)
\* variant: the A1 bound taken as exclusive (h5_index > 35)
conferencia_exclusive_a1(h5_index) ==
  IF h5_index = None THEN "N/A"
  ELSE LET h == h5_index[1] IN
    IF h > 35 THEN "A1"
    ELSE IF h >= 25 THEN "A2"
    ELSE IF h >= 20 THEN "A3"
    ELSE IF h >= 15 THEN "A4"
    ELSE IF h >= 12 THEN "A5"
    ELSE IF h >= 9 THEN "A6"
    ELSE IF h >= 6 THEN "A7"
    ELSE IF h > 0 THEN "A8"
    ELSE "N/C"

\* variant: a non-positive index answered with the sentinel of absence
conferencia_nonpositive_na(h5_index) ==
  IF h5_index = None THEN "N/A"
  ELSE LET h == h5_index[1] IN
    IF h >= 35 THEN "A1"
    ELSE IF h >= 25 THEN "A2"
    ELSE IF h >= 20 THEN "A3"
    ELSE IF h >= 15 THEN "A4"
    ELSE IF h >= 12 THEN "A5"
    ELSE IF h >= 9 THEN "A6"
    ELSE IF h >= 6 THEN "A7"
    ELSE IF h > 0 THEN "A8"
    ELSE "N/A"

\* variant: the A7 band starting at 5 instead of 6
conferencia_a7_from_5(h5_index) ==
  IF h5_index = None THEN "N/A"
  ELSE LET h == h5_index[1] IN
    IF h >= 35 THEN "A1"
    ELSE IF h >= 25 THEN "A2"
    ELSE IF h >= 20 THEN "A3"
    ELSE IF h >= 15 THEN "A4"
    ELSE IF h >= 12 THEN "A5"
    ELSE IF h >= 9 THEN "A6"
    ELSE IF h >= 5 THEN "A7"
    ELSE IF h > 0 THEN "A8"
    ELSE "N/C"

\* variant: the labels of the bands from 12 and from 9 exchanged
conferencia_a5_a6_swapped(h5_index) ==
  IF h5_index = None THEN "N/A"
  ELSE LET h == h5_index[1] IN
    IF h >= 35 THEN "A1"
    ELSE IF h >= 25 THEN "A2"
    ELSE IF h >= 20 THEN "A3"
    ELSE IF h >= 15 THEN "A4"
    ELSE IF h >= 12 THEN "A6"
    ELSE IF h >= 9 THEN "A5"
    ELSE IF h >= 6 THEN "A7"
    ELSE IF h > 0 THEN "A8"
    ELSE "N/C"

calcular_estrato_conferencia(h5_index) ==
  IF h5_index = None THEN "N/A"
  ELSE LET h == h5_index[1] IN
    IF h >= 35 THEN "A1"
    ELSE IF h >= 25 THEN "A2"
    ELSE IF h >= 20 THEN "A3"
    ELSE IF h >= 15 THEN "A4"
    ELSE IF h >= 12 THEN "A5"
    ELSE IF h >= 9 THEN "A6"
    ELSE IF h >= 6 THEN "A7"
    ELSE IF h > 0 THEN "A8"
    ELSE "N/C"

(***************************************************************************)
(* lib_aux.calcular_estrato_revista (percentil in tenths)                  *)
(***************************************************************************)
\* variant: the A2 bound taken as exclusive (percentil > 75.0)
revista_exclusive_a2(percentil) ==
  IF percentil = None THEN "N/A"
  ELSE LET p == percentil[1] IN
    IF p >= 875 THEN "A1"
    ELSE IF p > 750 THEN "A2"
    ELSE IF p >= 625 THEN "A3"
    ELSE IF p >= 500 THEN "A4"
    ELSE IF p >= 375 THEN "A5"
    ELSE IF p >= 250 THEN "A6"
    ELSE IF p >= 125 THEN "A7"
    ELSE "A8"

\* variant: the percentile cut to whole points (int(percentil)) before the ladder
revista_truncated(percentil) ==
  IF percentil = None THEN "N/A"
  ELSE LET p == IF percentil[1] >= 0
                THEN (percentil[1] \div 10) * 10
                ELSE 0 - (((0 - percentil[1]) \div 10) * 10) IN
    IF p >= 875 THEN "A1"
    ELSE IF p >= 750 THEN "A2"
    ELSE IF p >= 625 THEN "A3"
    ELSE IF p >= 500 THEN "A4"
    ELSE IF p >= 375 THEN "A5"
    ELSE IF p >= 250 THEN "A6"
    ELSE IF p >= 125 THEN "A7"
    ELSE "A8"

\* variant: a final branch for non-positive values, as in the index ladder
revista_nonpositive_nc(percentil) ==
  IF percentil = None THEN "N/A"
  ELSE LET p == percentil[1] IN
    IF p >= 875 THEN "A1"
    ELSE IF p >= 750 THEN "A2"
    ELSE IF p >= 625 THEN "A3"
    ELSE IF p >= 500 THEN "A4"
    ELSE IF p >= 375 THEN "A5"
    ELSE IF p >= 250 THEN "A6"
    ELSE IF p >= 125 THEN "A7"
    ELSE IF p > 0 THEN "A8"
    ELSE "N/C"

\* variant: the labels of the bands from 62.5 and from 50.0 exchanged
revista_a3_a4_swapped(percentil) ==
  IF percentil = None THEN "N/A"
  ELSE LET p == percentil[1] IN
    IF p >= 875 THEN "A1"
    ELSE IF p >= 750 THEN "A2"
    ELSE IF p >= 625 THEN "A4"
    ELSE IF p >= 500 THEN "A3"
    ELSE IF p >= 375 THEN "A5"
    ELSE IF p >= 250 THEN "A6"
    ELSE IF p >= 125 THEN "A7"
    ELSE "A8"

calcular_estrato_revista(percentil) ==
  IF percentil = None THEN "N/A"
  ELSE LET p == percentil[1] IN
    IF p >= 875 THEN "A1"
    ELSE IF p >= 750 THEN "A2"
    ELSE IF p >= 625 THEN "A3"
    ELSE IF p >= 500 THEN "A4"
    ELSE IF p >= 375 THEN "A5"
    ELSE IF p >= 250 THEN "A6"
    ELSE IF p >= 125 THEN "A7"
    ELSE "A8"

(***************************************************************************)
(* lib_aux.calcular_estrato_final                                          *)
(***************************************************************************)
\* variant: N/C given a rank of its own below A8 ("N/C": 9)
estrato_map_get_nc_ranked(e) ==
  IF e = None THEN 999
  ELSE CASE e[1] = "A1" -> 1
         [] e[1] = "A2" -> 2
         [] e[1] = "A3" -> 3
         [] e[1] = "A4" -> 4
         [] e[1] = "A5" -> 5
         [] e[1] = "A6" -> 6
         [] e[1] = "A7" -> 7
         [] e[1] = "A8" -> 8
         [] e[1] = "N/A" -> 999
         [] e[1] = "N/C" -> 9
         [] OTHER -> 999

\* estrato_map.get(e, 999): the dictionary and the default of the lookup
estrato_map_get(e) ==
  IF e = None THEN 999
  ELSE CASE e[1] = "A1" -> 1
         [] e[1] = "A2" -> 2
         [] e[1] = "A3" -> 3
         [] e[1] = "A4" -> 4
         [] e[1] = "A5" -> 5
         [] e[1] = "A6" -> 6
         [] e[1] = "A7" -> 7
         [] e[1] = "A8" -> 8
         [] e[1] = "N/A" -> 999
         [] e[1] = "N/C" -> 999
         [] OTHER -> 999

\* the list of (estrato, value) pairs, in argument order
valores(estrato_h5, estrato_percentil, estrato_jif) ==
  << <<estrato_h5, estrato_map_get(estrato_h5)>>,
     <<estrato_percentil, estrato_map_get(estrato_percentil)>>,
     <<estrato_jif, estrato_map_get(estrato_jif)>> >>

\* [(e, v) for e, v in valores if v < 999]
IsValido(par) == par[2] < 999
valores_validos(vals) == SelectSeq(vals, IsValido)

\* variant: max in place of min (the worst label wins)
max_by_key(seq) ==
  LET i == CHOOSE k \in 1..Len(seq) :
             /\ \A j \in 1..Len(seq) : seq[k][2] >= seq[j][2]
             /\ \A j \in 1..(k - 1) : seq[j][2] < seq[k][2]
  IN seq[i]

\* variant: the first valid pair taken without comparing
first_valido(seq) == seq[1]

\* Python's min(seq, key=lambda x: x[1]): the first element of least key
min_by_key(seq) ==
  LET i == CHOOSE k \in 1..Len(seq) :
             /\ \A j \in 1..Len(seq) : seq[k][2] <= seq[j][2]
             /\ \A j \in 1..(k - 1) : seq[j][2] > seq[k][2]
  IN seq[i]

\* variant: an H5 tier of N/C ends the reconciliation with N/C
final_nc_blocks(estrato_h5, estrato_percentil, estrato_jif) ==
  IF estrato_h5 = Some("N/C") THEN "N/C"
  ELSE LET validos == valores_validos(valores(estrato_h5, estrato_percentil, estrato_jif))
       IN IF validos = <<>> THEN "N/A"
          ELSE LET melhor_estrato == min_by_key(validos)[1] IN melhor_estrato[1]

calcular_estrato_final(estrato_h5, estrato_percentil, estrato_jif) ==
  LET validos == valores_validos(valores(estrato_h5, estrato_percentil, estrato_jif))
  IN IF validos = <<>> THEN "N/A"
     ELSE LET melhor_estrato == min_by_key(validos)[1] IN melhor_estrato[1]

(***************************************************************************)
(* State: the latest call of a core function and the one before it.        *)
(***************************************************************************)
VARIABLES
  fn,    \* name of the function called last, "" before the first call
  arg,   \* its argument (a triple for calcular_estrato_final)
  ret,   \* the label it returned
  prev   \* Optional record [fn, arg, ret] of the call before it

\* the calls of the core functions made one at a time
callVars == <<fn, arg, ret, prev>>

(***************************************************************************)
(* State of capes_metrics.main: the optional clients and the journal loop. *)
(***************************************************************************)
VARIABLES
  m_pc,            \* where main stands
  args,            \* the parsed flags [wos, scopus]
  env,             \* what os.getenv returned for [WOS_API_KEY, SCOPUS_API_KEY],
                   \* each Optional, None too when main does not read it
  wos_client,      \* TRUE when a WebOfScienceAPIClient was created
  scopus_client,   \* TRUE when a ScopusAPIClient was created
  revistas,        \* the configured journals
  i_rev,           \* the loop's i: number of the journal being processed, from 1
  resultado,       \* Optional RevistaMetrics of the journal being processed
  consultas,       \* the sources queried for that journal so far, in order
  resultados_rev   \* the records appended so far

mainVars ==
  <<m_pc, args, env, wos_client, scopus_client, revistas, i_rev, resultado,
    consultas, resultados_rev>>

\* the state of main other than its position
mainVars_but_pc ==
  <<args, env, wos_client, scopus_client, revistas, i_rev, resultado, consultas,
    resultados_rev>>

(***************************************************************************)
(* State of the workers that call the core functions concurrently.         *)
(***************************************************************************)
VARIABLES
  w_pc,     \* per worker: "idle", "called", the line reached inside
            \* calcular_estrato_final, "returned" or "raised"
  w_fn,     \* per worker: the function it called last
  w_arg,    \* per worker: the argument of that call
  w_ret,    \* per worker: Optional label, the value its last finished call returned
  frames    \* per call frame: the locals valores and valores_validos

workerVars == <<w_pc, w_fn, w_arg, w_ret, frames>>

(***************************************************************************)
(* State of a call of buscar_revista_wos on one of the two clients.        *)
(***************************************************************************)
VARIABLES
  wos_pc,      \* "idle", "requested" (session.get sent) or "returned"
  wos_module,  \* the module whose WebOfScienceAPIClient is called
  wos_issn,    \* Optional string: the issn argument
  wos_nome,    \* the nome argument
  wos_params,  \* Optional: the params of the request sent, None when none was
  wos_result   \* Optional 5-tuple: the tuple returned

wosVars == <<wos_pc, wos_module, wos_issn, wos_nome, wos_params, wos_result>>

(***************************************************************************)
(* State of a call of a core function made on both of its definitions.     *)
(***************************************************************************)
VARIABLES
  dup_fn,            \* the function called, "" before the first call
  dup_arg,           \* its argument
  dup_lib_aux,       \* the label returned by the definition of lib_aux.py
  dup_capes_metrics  \* the label returned by the definition of capes_metrics.py

dupVars == <<dup_fn, dup_arg, dup_lib_aux, dup_capes_metrics>>

(***************************************************************************)
(* State of the conference section of main, and the providers whose        *)
(* retrieval failed for the venue in hand.                                  *)
(***************************************************************************)
VARIABLES
  conferencias,     \* the list carregar_conferencias returned
  i_conf,           \* the loop index i, 0 outside the conference loop
  resultados_conf,  \* the list the conference loop appends to
  falhas            \* the providers whose call returned an error for this venue

confVars == <<conferencias, i_conf, resultados_conf, falhas>>

(***************************************************************************)
(* State of the retrieval calls made for one venue, request by request.    *)
(***************************************************************************)
VARIABLES
  r_pc,        \* "idle", "called", "delayed", "requested", "returned" or "raised"
  r_client,    \* the client called: "gsm", "wos" or "scopus"
  r_module,    \* the module of the client: "lib" (lib_*.py) or "capes_metrics"
  r_issn,      \* Optional string: the venue's ISSN
  r_nome,      \* the venue's name
  r_delays,    \* how many times _delay ran in the call
  r_requests,  \* how many requests the call sent
  r_resp,      \* Optional: the provider's answer to the call's request
  r_result,    \* Optional 5-tuple: what the call returned
  r_enviados   \* per provider, the requests sent for the venue so far

retrVars ==
  <<r_pc, r_client, r_module, r_issn, r_nome, r_delays, r_requests, r_resp,
    r_result, r_enviados>>

\* the API key a client was built with and the authentication-failure message
\* it returned
VARIABLES mask_pc, mask_client, self_api_key, masked, mask_erro
maskVars == <<mask_pc, mask_client, self_api_key, masked, mask_erro>>

vars == <<callVars, mainVars, workerVars, wosVars, dupVars, confVars, retrVars, maskVars>>

InitCalls ==
  /\ fn = ""
  /\ arg = None
  /\ ret = ""
  /\ prev = None

InitMain ==
  /\ m_pc = "setup"
  /\ args = [conferencias |-> FALSE, revistas |-> FALSE, wos |-> FALSE, scopus |-> FALSE]
  /\ env = [WOS_API_KEY |-> None, SCOPUS_API_KEY |-> None]
  /\ wos_client = FALSE
  /\ scopus_client = FALSE
  /\ revistas = <<>>
  /\ i_rev = 0
  /\ resultado = None
  /\ consultas = <<>>
  /\ resultados_rev = <<>>

\* the workers
Workers == {"w1", "w2"}

\* the locals of a call of calcular_estrato_final before they are assigned
EmptyFrame == [valores |-> <<>>, valores_validos |-> <<>>]

InitWorkers ==
  /\ w_pc = [w \in Workers |-> "idle"]
  /\ w_fn = [w \in Workers |-> ""]
  /\ w_arg = [w \in Workers |-> None]
  /\ w_ret = [w \in Workers |-> None]
  /\ frames = [w \in Workers |-> EmptyFrame]

InitWos ==
  /\ wos_pc = "idle"
  /\ wos_module = ""
  /\ wos_issn = None
  /\ wos_nome = ""
  /\ wos_params = None
  /\ wos_result = None

InitDup ==
  /\ dup_fn = ""
  /\ dup_arg = None
  /\ dup_lib_aux = ""
  /\ dup_capes_metrics = ""

InitConf ==
  /\ conferencias = <<>>
  /\ i_conf = 0
  /\ resultados_conf = <<>>
  /\ falhas = {}

\* the providers
Providers == {"gsm", "wos", "scopus"}

InitRetr ==
  /\ r_pc = "idle"
  /\ r_client = ""
  /\ r_module = ""
  /\ r_issn = None
  /\ r_nome = ""
  /\ r_delays = 0
  /\ r_requests = 0
  /\ r_resp = None
  /\ r_result = None
  /\ r_enviados = [c \in Providers |-> 0]

\* no client built yet
InitMask ==
  /\ mask_pc = "start"
  /\ mask_client = ""
  /\ self_api_key = <<>>
  /\ masked = <<>>
  /\ mask_erro = None

Init == InitCalls /\ InitMain /\ InitWorkers /\ InitWos /\ InitDup /\ InitConf /\ InitRetr /\ InitMask

\* what the latest call becomes once another call is made
Shift == IF fn = "" THEN None ELSE Some([fn |-> fn, arg |-> arg, ret |-> ret])

CallConferencia(h5_index) ==
  /\ fn' = "calcular_estrato_conferencia"
  /\ arg' = h5_index
  /\ ret' = calcular_estrato_conferencia(h5_index)
  /\ prev' = Shift
  /\ UNCHANGED <<mainVars, workerVars, wosVars, dupVars, confVars, retrVars, maskVars>>

CallRevista(percentil) ==
  /\ fn' = "calcular_estrato_revista"
  /\ arg' = percentil
  /\ ret' = calcular_estrato_revista(percentil)
  /\ prev' = Shift
  /\ UNCHANGED <<mainVars, workerVars, wosVars, dupVars, confVars, retrVars, maskVars>>

NextClassify ==
  \/ \E h5_index \in H5Inputs : CallConferencia(h5_index)
  \/ \E percentil \in PctInputs : CallRevista(percentil)

SpecClassify == Init /\ [][NextClassify]_vars

(***************************************************************************)
(* The reconciler: a first call on any three labels, then calls on the     *)
(* same three labels handed over in another order.                         *)
(***************************************************************************)
\* the six orders of three arguments
Orders == {<<1, 2, 3>>, <<1, 3, 2>>, <<2, 1, 3>>, <<2, 3, 1>>, <<3, 1, 2>>, <<3, 2, 1>>}

CallFinal(estrato_h5, estrato_percentil, estrato_jif) ==
  /\ fn = ""
  /\ fn' = "calcular_estrato_final"
  /\ arg' = <<estrato_h5, estrato_percentil, estrato_jif>>
  /\ ret' = calcular_estrato_final(estrato_h5, estrato_percentil, estrato_jif)
  /\ prev' = Shift
  /\ UNCHANGED <<mainVars, workerVars, wosVars, dupVars, confVars, retrVars, maskVars>>

CallFinalReordered(o) ==
  /\ fn = "calcular_estrato_final"
  /\ fn' = "calcular_estrato_final"
  /\ arg' = <<arg[o[1]], arg[o[2]], arg[o[3]]>>
  /\ ret' = calcular_estrato_final(arg[o[1]], arg[o[2]], arg[o[3]])
  /\ prev' = Shift
  /\ UNCHANGED <<mainVars, workerVars, wosVars, dupVars, confVars, retrVars, maskVars>>

\* what stands for "no usable tier" besides N/C
NoTier == {None, Some("N/A")}

\* the same labels again, with the N/C in position i handed over as e
CallFinalSubstituted(i, e) ==
  /\ fn = "calcular_estrato_final"
  /\ arg[i] = Some("N/C")
  /\ fn' = "calcular_estrato_final"
  /\ arg' = [arg EXCEPT ![i] = e]
  /\ ret' = calcular_estrato_final(arg'[1], arg'[2], arg'[3])
  /\ prev' = Shift
  /\ UNCHANGED <<mainVars, workerVars, wosVars, dupVars, confVars, retrVars, maskVars>>

\* the same labels again without the third source
CallFinalWithoutJif ==
  /\ fn = "calcular_estrato_final"
  /\ fn' = "calcular_estrato_final"
  /\ arg' = <<arg[1], arg[2], None>>
  /\ ret' = calcular_estrato_final(arg[1], arg[2], None)
  /\ prev' = Shift
  /\ UNCHANGED <<mainVars, workerVars, wosVars, dupVars, confVars, retrVars, maskVars>>

\* the label just returned handed back as the only source
CallFinalOfResult ==
  /\ fn = "calcular_estrato_final"
  /\ fn' = "calcular_estrato_final"
  /\ arg' = <<Some(ret), None, None>>
  /\ ret' = calcular_estrato_final(Some(ret), None, None)
  /\ prev' = Shift
  /\ UNCHANGED <<mainVars, workerVars, wosVars, dupVars, confVars, retrVars, maskVars>>

NextFinal ==
  \/ \E e1 \in EstratoInputs, e2 \in EstratoInputs, e3 \in EstratoInputs :
       CallFinal(e1, e2, e3)
  \/ \E o \in Orders : CallFinalReordered(o)
  \/ \E i \in 1..3, e \in NoTier : CallFinalSubstituted(i, e)
  \/ CallFinalWithoutJif
  \/ CallFinalOfResult

SpecFinal == Init /\ [][NextFinal]_vars

(***************************************************************************)
(* Strings that the code strips or tests for emptiness are sequences of    *)
(* characters.                                                             *)
(***************************************************************************)
RECURSIVE lstrip(_)
lstrip(s) == IF s # <<>> /\ s[1] = " " THEN lstrip(Tail(s)) ELSE s

RECURSIVE rstrip(_)
rstrip(s) ==
  IF s # <<>> /\ s[Len(s)] = " " THEN rstrip(SubSeq(s, 1, Len(s) - 1)) ELSE s

\* str.strip()
strip(s) == rstrip(lstrip(s))

\* `not x or not x.strip()` for an Optional[str]
IsBlank(x) == x = None \/ x[1] = <<>> \/ strip(x[1]) = <<>>

\* the truth value of an Optional number: None and 0 are false
Truthy(x) == x # None /\ x[1] # 0

\* a 5-tuple (None, None, None, None, erro)
Falha(erro) == <<None, None, None, None, Some(erro)>>

(***************************************************************************)
(* GoogleScholarMetricsScraper._buscar_venue_gsm, on the provider's answer *)
(***************************************************************************)
\* a row of the result table without TD cells (the header)
GsmHeader == [td |-> FALSE, nome |-> None, celulas |-> <<>>]

\* a data row: the venue name, the H5-index cell (a link) and the H5-median
\* cell; valor is int(text), None when the text is no integer
GsmRow(nome, valor) ==
  [td |-> TRUE, nome |-> Some(nome),
   celulas |-> << [a |-> TRUE, valor |-> valor, href |-> Some("href")],
                  [a |-> FALSE, valor |-> valor, href |-> None] >>]

\* variant: the last data row taken in place of the first
_buscar_venue_gsm_last_row(resp) ==
  IF resp.kind = "connection_error" THEN Falha("Erro de conexao")
  ELSE IF resp.kind = "exception" THEN Falha("Erro")
  ELSE IF resp.captcha THEN Falha("BLOQUEADO (CAPTCHA)")
  ELSE IF resp.tabela = None THEN Falha("Nenhum resultado encontrado")
  ELSE LET linhas_dados == SelectSeq(resp.tabela[1], LAMBDA linha_tr : linha_tr.td) IN
    IF linhas_dados = <<>> THEN Falha("Nenhum resultado na tabela")
    ELSE LET linha == linhas_dados[Len(linhas_dados)]
             celulas_metricas == linha.celulas
             parsed == /\ Len(celulas_metricas) >= 1
                       /\ celulas_metricas[1].a
                       /\ celulas_metricas[1].valor # None
             h5_index == IF parsed THEN celulas_metricas[1].valor ELSE None
             url_fonte == IF parsed /\ celulas_metricas[1].href # None
                          THEN Some(<<"BASE_URL", celulas_metricas[1].href[1]>>)
                          ELSE None
             h5_median == IF Len(celulas_metricas) >= 2
                          THEN celulas_metricas[2].valor ELSE None
         IN <<linha.nome, h5_index, h5_median, url_fonte, None>>

_buscar_venue_gsm(resp) ==
  IF resp.kind = "connection_error" THEN Falha("Erro de conexao")
  ELSE IF resp.kind = "exception" THEN Falha("Erro")
  ELSE IF resp.captcha THEN Falha("BLOQUEADO (CAPTCHA)")
  ELSE IF resp.tabela = None THEN Falha("Nenhum resultado encontrado")
  ELSE LET linhas_dados == SelectSeq(resp.tabela[1], LAMBDA linha_tr : linha_tr.td) IN
    IF linhas_dados = <<>> THEN Falha("Nenhum resultado na tabela")
    ELSE LET linha == linhas_dados[1]
             celulas_metricas == linha.celulas
             parsed == /\ Len(celulas_metricas) >= 1
                       /\ celulas_metricas[1].a
                       /\ celulas_metricas[1].valor # None
             h5_index == IF parsed THEN celulas_metricas[1].valor ELSE None
             url_fonte == IF parsed /\ celulas_metricas[1].href # None
                          THEN Some(<<"BASE_URL", celulas_metricas[1].href[1]>>)
                          ELSE None
             h5_median == IF Len(celulas_metricas) >= 2
                          THEN celulas_metricas[2].valor ELSE None
         IN <<linha.nome, h5_index, h5_median, url_fonte, None>>

\* a page of results
GsmPage(captcha, tabela) == [kind |-> "page", captcha |-> captcha, tabela |-> tabela]

\* the answers of Google Scholar that main is run against
GsmResponses ==
  { GsmPage(TRUE, None),
    GsmPage(FALSE, Some(<<GsmHeader, GsmRow("n1", None)>>)),
    GsmPage(FALSE, Some(<<GsmHeader, GsmRow("n1", Some(0))>>)),
    GsmPage(FALSE, Some(<<GsmHeader, GsmRow("n1", Some(40)), GsmRow("n2", Some(0))>>)) }

(***************************************************************************)
(* capes_metrics.WebOfScienceAPIClient.buscar_revista_wos, on the answer   *)
(***************************************************************************)
\* the query sent: the stripped ISSN when there is one, else the name
wos_query(issn, nome) ==
  IF ~IsBlank(issn)
  THEN [search_type |-> "issn", query_param |-> strip(issn[1])]
  ELSE [search_type |-> "title", query_param |-> nome]

buscar_revista_wos(issn, nome, resp) ==
  IF resp.kind = "timeout" THEN Falha("Timeout")
  ELSE IF resp.kind = "connection_error" THEN Falha("Erro de conexao WoS API")
  ELSE IF resp.status_code = 401 THEN Falha("Autenticacao falhou")
  ELSE IF resp.status_code = 429 THEN Falha("Rate limit excedido")
  ELSE IF resp.status_code = 404 THEN Falha("Revista nao encontrada no WoS")
  ELSE IF resp.status_code >= 400 THEN Falha("Erro de conexao WoS API")
  ELSE IF resp.data = None THEN Falha("Erro ao parsear resposta WoS")
  ELSE IF resp.data[1] = <<>> THEN Falha("Nenhum resultado no WoS")
  ELSE LET journal == resp.data[1][1]
           metrics == journal.metrics
           jif == metrics.jif
           jif_percentil == metrics.jif_percentile
           categoria_wos == metrics.category
           url_wos == IF journal.id # None
                      THEN Some(<<"jcr", journal.id[1]>>) ELSE None
       IN IF jif = None /\ jif_percentil = None
          THEN <<None, None, categoria_wos, url_wos,
                 Some("Revista encontrada mas sem metricas JIF disponiveis")>>
          ELSE <<jif, jif_percentil, categoria_wos, url_wos, None>>

\* an HTTP answer: the status and the "data" list of the JSON body
WosHttp(status_code, data) ==
  [kind |-> "http", status_code |-> status_code, data |-> data]

\* an entry of the "data" list; jif and jif_percentile in tenths
WosJournal(id, jif, jif_percentile) ==
  [id |-> Some(id),
   metrics |-> [jif |-> jif, jif_percentile |-> jif_percentile,
                category |-> Some("cat")]]

\* the answers of Web of Science that main is run against
WosResponses ==
  { [kind |-> "timeout"],
    WosHttp(401, None),
    WosHttp(200, Some(<<WosJournal("j1", None, None)>>)),
    WosHttp(200, Some(<<WosJournal("j1", Some(52), Some(900)),
                        WosJournal("j2", Some(11), Some(124))>>)) }

(***************************************************************************)
(* capes_metrics.ScopusAPIClient.buscar_revista_scopus, on the answer      *)
(***************************************************************************)
\* max(latest.rank, key=...): the first entry of greatest key, where an
\* entry without percentile counts as 0
best_rank(rank) ==
  LET key(r) == IF Truthy(r.percentile) THEN r.percentile[1] ELSE 0
      k == CHOOSE n \in 1..Len(rank) :
             /\ \A j \in 1..Len(rank) : key(rank[n]) >= key(rank[j])
             /\ \A j \in 1..(n - 1) : key(rank[j]) < key(rank[n])
  IN rank[k]

buscar_revista_scopus(issn, nome, resp) ==
  IF IsBlank(issn) THEN Falha("ISSN nao fornecido")
  ELSE IF resp.kind = "exception" THEN
    IF resp.msg = "401" THEN Falha("Autenticacao falhou")
    ELSE IF resp.msg = "404" THEN Falha("Revista nao encontrada no Scopus")
    ELSE IF resp.msg = "429" THEN Falha("Rate limit excedido")
    ELSE Falha("Erro Scopus")
  ELSE LET cs_info == resp.citescoreyearinfolist IN
    IF cs_info = <<>> THEN Falha("Nenhum dado CiteScore disponivel")
    ELSE LET latest == cs_info[Len(cs_info)]
             citescore == IF Truthy(latest.citescore) THEN latest.citescore ELSE None
             best == best_rank(latest.rank)
             percentile == IF latest.rank # <<>> /\ Truthy(best.percentile)
                           THEN best.percentile ELSE None
             area == IF latest.rank # <<>> THEN Some(best.subjectcode) ELSE None
             url_scopus == IF resp.source_id # None
                           THEN Some(<<"sourceid", resp.source_id[1]>>) ELSE None
         IN <<citescore, percentile, area, url_scopus, None>>

\* a serial title: its CiteScore years, oldest first
ScopusSerial(years) ==
  [kind |-> "serial", citescoreyearinfolist |-> years, source_id |-> Some("sid")]

\* one CiteScore year; citescore and percentiles in tenths
ScopusYear(citescore, rank) == [citescore |-> citescore, rank |-> rank]
ScopusRank(subjectcode, percentile) ==
  [subjectcode |-> subjectcode, percentile |-> percentile]

\* the answers of Scopus that main is run against
ScopusResponses ==
  { [kind |-> "exception", msg |-> "404"],
    ScopusSerial(<<>>),
    ScopusSerial(<<ScopusYear(Some(31), <<>>)>>),
    ScopusSerial(<<ScopusYear(Some(20), <<ScopusRank("1700", Some(990))>>),
                   ScopusYear(Some(45), <<ScopusRank("1702", Some(124)),
                                          ScopusRank("1712", Some(700))>>)>>) }


(***************************************************************************)
(* capes_metrics.main: the set-up of the optional clients and the journal  *)
(* section, for a run that collects journals.                              *)
(***************************************************************************)
\* --conferencias and --revistas: only conferences, only journals, neither
\* (everything is collected)
ModeInputs == {<<TRUE, FALSE>>, <<FALSE, TRUE>>, <<FALSE, FALSE>>}

\* the second column of conferencias.csv: missing, or a name
NomeInputs == {None, Some(<<"n", "o", "m", "e">>)}

\* the lists carregar_conferencias can return, up to MaxConferencias entries
ConferenciasInputs ==
  UNION { { [k \in 1..n |-> [sigla |-> <<"C", k>>, nome_completo |-> f[k]]] :
            f \in [1..n -> NomeInputs] } :
          n \in 0..MaxConferencias }

\* values of WOS_API_KEY / SCOPUS_API_KEY: unset, empty, blank, a key
KeyInputs == {None, Some(<<>>), Some(<<" ">>), Some(<<"k", "e", "y">>)}

\* what main reads of a key: os.getenv is called only under `if args.wos:` /
\* `if args.scopus:`
KeysRead(flag) == IF flag THEN KeyInputs ELSE {None}

\* the third column of revistas.csv: missing, or an ISSN
IssnInputs == {None, Some(<<"1", "2", "3", "4">>)}

\* the lists carregar_revistas can return, up to MaxRevistas journals
RevistasInputs ==
  UNION { { [k \in 1..n |-> [sigla |-> <<"R", k>>,
                             nome_completo |-> <<"Revista", k>>,
                             issn |-> f[k]]] : f \in [1..n -> IssnInputs] } :
          n \in 0..MaxRevistas }

\* variant: a constructor that rejects only the empty key
InitRaises_empty_only(api_key) == api_key = <<>>

\* WebOfScienceAPIClient.__init__ / ScopusAPIClient.__init__ raise ValueError
InitRaises(api_key) == api_key = <<>> \/ strip(api_key) = <<>>

\* the client main ends up with: `if args.x:`, `if api_key:`, try/except ValueError
ClientCreated(flag, api_key) ==
  flag /\ api_key # None /\ api_key[1] # <<>> /\ ~InitRaises(api_key[1])

\* coletar_tudo = not args.conferencias and not args.revistas
coletar_tudo(a_conferencias, a_revistas) == ~a_conferencias /\ ~a_revistas

Setup(a_conferencias, a_revistas, a_wos, k_wos, a_scopus, k_scopus) ==
  /\ m_pc = "setup"
  /\ args' = [conferencias |-> a_conferencias, revistas |-> a_revistas,
              wos |-> a_wos, scopus |-> a_scopus]
  /\ env' = [WOS_API_KEY |-> k_wos, SCOPUS_API_KEY |-> k_scopus]
  /\ wos_client' = ClientCreated(a_wos, k_wos)
  /\ scopus_client' = ClientCreated(a_scopus, k_scopus)
  /\ m_pc' = IF coletar_tudo(a_conferencias, a_revistas) \/ a_conferencias
            THEN "load_conf"
            ELSE "load"
  /\ UNCHANGED <<revistas, i_rev, resultado, consultas, resultados_rev>>
  /\ UNCHANGED <<callVars, workerVars, wosVars, dupVars, confVars, retrVars, maskVars>>

\* the section that follows the conference section
AfterConferencias ==
  IF coletar_tudo(args.conferencias, args.revistas) \/ args.revistas
  THEN "load" ELSE "done"

\* conferencias = carregar_conferencias(...); `if conferencias:`;
\* resultados_conf = []
LoadConferencias(cs) ==
  /\ m_pc = "load_conf"
  /\ conferencias' = cs
  /\ resultados_conf' = <<>>
  /\ i_conf' = IF cs = <<>> THEN 0 ELSE 1
  /\ m_pc' = IF cs = <<>> THEN AfterConferencias ELSE "conf"
  /\ UNCHANGED falhas
  /\ UNCHANGED <<callVars, mainVars_but_pc, workerVars, wosVars, dupVars, retrVars, maskVars>>

\* ConferenciaMetrics(sigla=..., nome_completo=..., data_coleta=...)
ConferenciaMetrics(sigla, nome_completo) ==
  [sigla |-> sigla, nome_completo |-> nome_completo,
   nome_gsm |-> None, h5_index |-> None, h5_median |-> None,
   estrato_capes |-> None, url_fonte |-> None, erro |-> None,
   data_coleta |-> Some("now")]

\* GoogleScholarMetricsScraper.buscar_conferencia; the query (nome_completo,
\* else sigla) selects the provider's answer resp
buscar_conferencia(sigla, nome_completo, resp) ==
  LET t == _buscar_venue_gsm(resp) IN
    [ConferenciaMetrics(sigla, nome_completo) EXCEPT
       !.nome_gsm = t[1],
       !.h5_index = t[2],
       !.h5_median = t[3],
       !.url_fonte = t[4],
       !.erro = t[5],
       !.estrato_capes = Some(calcular_estrato_conferencia(t[2]))]

\* one iteration of the conference loop: buscar_conferencia, append
ConfStep ==
  /\ m_pc = "conf"
  /\ \E resp \in GsmResponses :
       LET conf == conferencias[i_conf]
           novo == buscar_conferencia(conf.sigla, conf.nome_completo, resp)
       IN /\ resultados_conf' = Append(resultados_conf, novo)
          /\ falhas' = IF novo.erro # None THEN {"gsm"} ELSE {}
  /\ IF i_conf < Len(conferencias)
     THEN i_conf' = i_conf + 1 /\ m_pc' = "conf"
     ELSE i_conf' = i_conf /\ m_pc' = "save_conf"
  /\ UNCHANGED conferencias
  /\ UNCHANGED <<callVars, mainVars_but_pc, workerVars, wosVars, dupVars, retrVars, maskVars>>

\* salvar_csv, salvar_json, imprimir_tabela_conferencias; the conference lists
\* are not read again after this point
SaveConferencias ==
  /\ m_pc = "save_conf"
  /\ m_pc' = AfterConferencias
  /\ conferencias' = <<>>
  /\ resultados_conf' = <<>>
  /\ i_conf' = 0
  /\ falhas' = {}
  /\ UNCHANGED <<callVars, mainVars_but_pc, workerVars, wosVars, dupVars, retrVars, maskVars>>

\* revistas = carregar_revistas(...); `if revistas:`; resultados_rev = []
LoadRevistas(rs) ==
  /\ m_pc = "load"
  /\ revistas' = rs
  /\ resultados_rev' = <<>>
  /\ i_rev' = IF rs = <<>> THEN 0 ELSE 1
  /\ m_pc' = IF rs = <<>> THEN "done" ELSE "gsm"
  /\ UNCHANGED <<args, env, wos_client, scopus_client, resultado, consultas>>
  /\ UNCHANGED <<callVars, workerVars, wosVars, dupVars, confVars, retrVars, maskVars>>

\* RevistaMetrics(sigla=..., nome_completo=..., issn=..., data_coleta=...)
RevistaMetrics(sigla, nome_completo, issn) ==
  [sigla |-> sigla, nome_completo |-> nome_completo, issn |-> issn,
   nome_gsm |-> None, h5_index |-> None, h5_median |-> None, estrato_h5 |-> None,
   citescore |-> None, percentil |-> None, area_tematica |-> None,
   estrato_percentil |-> None,
   jif |-> None, jif_percentil |-> None, categoria_wos |-> None,
   estrato_jif |-> None,
   estrato_final |-> None,
   url_gsm |-> None, url_scopus |-> None, url_wos |-> None,
   erro |-> None, data_coleta |-> Some("now")]

\* variant: a failed retrieval recorded as the tier N/C
buscar_revista_erro_as_nc(sigla, nome_completo, issn, resp) ==
  LET t == _buscar_venue_gsm(resp) IN
    [RevistaMetrics(sigla, nome_completo, issn) EXCEPT
       !.nome_gsm = t[1],
       !.h5_index = t[2],
       !.h5_median = t[3],
       !.url_gsm = t[4],
       !.erro = t[5],
       !.estrato_h5 = IF t[5] # None THEN Some("N/C")
                      ELSE Some(calcular_estrato_conferencia(t[2]))]

\* GoogleScholarMetricsScraper.buscar_revista
buscar_revista(sigla, nome_completo, issn, resp) ==
  LET t == _buscar_venue_gsm(resp) IN
    [RevistaMetrics(sigla, nome_completo, issn) EXCEPT
       !.nome_gsm = t[1],
       !.h5_index = t[2],
       !.h5_median = t[3],
       !.url_gsm = t[4],
       !.erro = t[5],
       !.estrato_h5 = Some(calcular_estrato_conferencia(t[2]))]

\* variant: one record object made before the loop and filled again for each
\* journal
GsmStep_reused_record ==
  /\ m_pc = "gsm"
  /\ \E resp \in GsmResponses :
       LET rev == revistas[i_rev]
           novo == buscar_revista(rev.sigla, rev.nome_completo, rev.issn, resp)
       IN /\ resultado' =
            IF resultado = None THEN Some(novo)
            ELSE Some([resultado[1] EXCEPT
                         !.sigla = novo.sigla, !.nome_completo = novo.nome_completo,
                         !.issn = novo.issn, !.nome_gsm = novo.nome_gsm,
                         !.h5_index = novo.h5_index, !.h5_median = novo.h5_median,
                         !.url_gsm = novo.url_gsm, !.erro = novo.erro,
                         !.estrato_h5 = novo.estrato_h5])
          /\ falhas' = IF novo.erro # None THEN {"gsm"} ELSE {}
  /\ consultas' = <<"gsm">>
  /\ m_pc' = "wos"
  /\ UNCHANGED <<args, env, wos_client, scopus_client, revistas, i_rev, resultados_rev>>
  /\ UNCHANGED <<conferencias, i_conf, resultados_conf>>
  /\ UNCHANGED <<callVars, workerVars, wosVars, dupVars, retrVars, maskVars>>

\* 1. Coleta H5-index (Google Scholar)
GsmStep ==
  /\ m_pc = "gsm"
  /\ \E resp \in GsmResponses :
       LET rev == revistas[i_rev]
           novo == buscar_revista(rev.sigla, rev.nome_completo, rev.issn, resp)
       IN /\ resultado' = Some(novo)
          /\ falhas' = IF novo.erro # None THEN {"gsm"} ELSE {}
  /\ consultas' = <<"gsm">>
  /\ m_pc' = "wos"
  /\ UNCHANGED <<args, env, wos_client, scopus_client, revistas, i_rev, resultados_rev>>
  /\ UNCHANGED <<conferencias, i_conf, resultados_conf>>
  /\ UNCHANGED <<callVars, workerVars, wosVars, dupVars, retrVars, maskVars>>

\* variant: the WoS step also stores its error in erro
with_wos_records_erro(r, t) ==
  [r EXCEPT !.jif = t[1],
            !.jif_percentil = t[2],
            !.categoria_wos = t[3],
            !.url_wos = t[4],
            !.erro = IF t[5] # None THEN t[5] ELSE r.erro,
            !.estrato_jif = IF t[2] # None
                            THEN Some(calcular_estrato_revista(t[2])) ELSE None]

\* the record after the WoS answer t
with_wos(r, t) ==
  [r EXCEPT !.jif = t[1],
            !.jif_percentil = t[2],
            !.categoria_wos = t[3],
            !.url_wos = t[4],
            !.estrato_jif = IF t[2] # None
                            THEN Some(calcular_estrato_revista(t[2])) ELSE None]

\* 2. Coleta JIF (Web of Science) se --wos ativado
WosStep ==
  /\ m_pc = "wos"
  /\ \/ /\ wos_client
        /\ \E resp \in WosResponses :
             LET t == buscar_revista_wos(resultado[1].issn,
                                         resultado[1].nome_completo, resp)
             IN /\ resultado' = Some(with_wos(resultado[1], t))
                /\ falhas' = IF t[5] # None THEN falhas \cup {"wos"} ELSE falhas
        /\ consultas' = Append(consultas, "wos")
     \/ /\ ~wos_client
        /\ UNCHANGED <<resultado, consultas, falhas>>
  /\ m_pc' = "scopus"
  /\ UNCHANGED <<args, env, wos_client, scopus_client, revistas, i_rev, resultados_rev>>
  /\ UNCHANGED <<conferencias, i_conf, resultados_conf>>
  /\ UNCHANGED <<callVars, workerVars, wosVars, dupVars, retrVars, maskVars>>

\* the record after the Scopus answer t
with_scopus(r, t) ==
  [r EXCEPT !.citescore = t[1],
            !.percentil = t[2],
            !.area_tematica = t[3],
            !.url_scopus = t[4],
            !.estrato_percentil = IF t[2] # None
                                  THEN Some(calcular_estrato_revista(t[2])) ELSE None]

\* 3. Coleta CiteScore (Scopus) se --scopus ativado
ScopusStep ==
  /\ m_pc = "scopus"
  /\ \/ /\ scopus_client
        /\ \E resp \in ScopusResponses :
             LET t == buscar_revista_scopus(resultado[1].issn,
                                            resultado[1].nome_completo, resp)
             IN /\ resultado' = Some(with_scopus(resultado[1], t))
                /\ falhas' = IF t[5] # None THEN falhas \cup {"scopus"} ELSE falhas
        /\ consultas' = Append(consultas, "scopus")
     \/ /\ ~scopus_client
        /\ UNCHANGED <<resultado, consultas, falhas>>
  /\ m_pc' = "final"
  /\ UNCHANGED <<args, env, wos_client, scopus_client, revistas, i_rev, resultados_rev>>
  /\ UNCHANGED <<conferencias, i_conf, resultados_conf>>
  /\ UNCHANGED <<callVars, workerVars, wosVars, dupVars, retrVars, maskVars>>

\* the record with its final tier
with_final(r) ==
  [r EXCEPT !.estrato_final =
     Some(calcular_estrato_final(r.estrato_h5, r.estrato_percentil, r.estrato_jif))]

\* variant: the final tier computed before Scopus is consulted
FinalStep_before_scopus ==
  /\ m_pc = "scopus"
  /\ resultado' = Some(with_final(resultado[1]))
  /\ m_pc' = "append"
  /\ UNCHANGED <<args, env, wos_client, scopus_client, revistas, i_rev, consultas,
                 resultados_rev>>
  /\ UNCHANGED <<callVars, workerVars, wosVars, dupVars, confVars, retrVars, maskVars>>

\* 4. Calcula estrato final (melhor entre H5, CiteScore, JIF)
FinalStep ==
  /\ m_pc = "final"
  /\ resultado' = Some(with_final(resultado[1]))
  /\ m_pc' = "append"
  /\ UNCHANGED <<args, env, wos_client, scopus_client, revistas, i_rev, consultas,
                 resultados_rev>>
  /\ UNCHANGED <<callVars, workerVars, wosVars, dupVars, confVars, retrVars, maskVars>>

\* variant: the journal loop left at the first record that holds an error
AppendStep_stops_on_error ==
  /\ m_pc = "append"
  /\ resultados_rev' = Append(resultados_rev, resultado[1])
  /\ IF i_rev < Len(revistas) /\ resultado[1].erro = None
     THEN i_rev' = i_rev + 1 /\ m_pc' = "gsm"
     ELSE i_rev' = i_rev /\ m_pc' = "done"
  /\ UNCHANGED <<args, env, wos_client, scopus_client, revistas, resultado, consultas>>
  /\ UNCHANGED <<callVars, workerVars, wosVars, dupVars, confVars, retrVars, maskVars>>

\* resultados_rev.append(resultado), and on to the next journal
AppendStep ==
  /\ m_pc = "append"
  /\ resultados_rev' = Append(resultados_rev, resultado[1])
  /\ IF i_rev < Len(revistas)
     THEN i_rev' = i_rev + 1 /\ m_pc' = "gsm"
     ELSE i_rev' = i_rev /\ m_pc' = "done"
  /\ UNCHANGED <<args, env, wos_client, scopus_client, revistas, resultado, consultas>>
  /\ UNCHANGED <<callVars, workerVars, wosVars, dupVars, confVars, retrVars, maskVars>>

Next ==
  \/ \E modo \in ModeInputs, a_wos \in BOOLEAN, a_scopus \in BOOLEAN :
     \E k_wos \in KeysRead(a_wos), k_scopus \in KeysRead(a_scopus) :
       Setup(modo[1], modo[2], a_wos, k_wos, a_scopus, k_scopus)
  \/ \E cs \in ConferenciasInputs : LoadConferencias(cs)
  \/ ConfStep
  \/ SaveConferencias
  \/ \E rs \in RevistasInputs : LoadRevistas(rs)
  \/ GsmStep
  \/ WosStep
  \/ ScopusStep
  \/ FinalStep
  \/ AppendStep

Spec == Init /\ [][Next]_vars

(***************************************************************************)
(* Concurrent callers of the core functions.  A classifier is one          *)
(* expression and is evaluated in one step; calcular_estrato_final runs    *)
(* line by line on the locals of its own call frame.                       *)
(***************************************************************************)
\* the arguments the workers pass
WorkerH5Inputs == {None, Some(0), Some(35)}
WorkerPctInputs == {None, Some(875)}
WorkerEstratoInputs == {None, Some("A1"), Some("A2"), Some("N/C")}
WorkerJifInputs == {None, Some("A1")}

\* variant: valores and valores_validos kept in one module-level place
frame_shared(w) == "w1"

\* the frame that holds the locals of worker w's call: its own
frame_of(w) == w

\* a worker is free to make a call before its first call and after a return
Free(w) == w_pc[w] \in {"idle", "returned"}

WCallConferencia(w, h5_index) ==
  /\ Free(w)
  /\ w_pc' = [w_pc EXCEPT ![w] = "called"]
  /\ w_fn' = [w_fn EXCEPT ![w] = "calcular_estrato_conferencia"]
  /\ w_arg' = [w_arg EXCEPT ![w] = h5_index]
  /\ UNCHANGED <<w_ret, frames>>
  /\ UNCHANGED <<callVars, mainVars, wosVars, dupVars, confVars, retrVars, maskVars>>

WCallRevista(w, percentil) ==
  /\ Free(w)
  /\ w_pc' = [w_pc EXCEPT ![w] = "called"]
  /\ w_fn' = [w_fn EXCEPT ![w] = "calcular_estrato_revista"]
  /\ w_arg' = [w_arg EXCEPT ![w] = percentil]
  /\ UNCHANGED <<w_ret, frames>>
  /\ UNCHANGED <<callVars, mainVars, wosVars, dupVars, confVars, retrVars, maskVars>>

WCallFinal(w, estrato_h5, estrato_percentil, estrato_jif) ==
  /\ Free(w)
  /\ w_pc' = [w_pc EXCEPT ![w] = "called"]
  /\ w_fn' = [w_fn EXCEPT ![w] = "calcular_estrato_final"]
  /\ w_arg' = [w_arg EXCEPT ![w] = <<estrato_h5, estrato_percentil, estrato_jif>>]
  /\ UNCHANGED <<w_ret, frames>>
  /\ UNCHANGED <<callVars, mainVars, wosVars, dupVars, confVars, retrVars, maskVars>>

\* variant: the label of the worker's previous call returned again (a result
\* cache that ignores the argument)
WReturnClassifier_cached(w) ==
  /\ w_pc[w] = "called"
  /\ w_fn[w] \in {"calcular_estrato_conferencia", "calcular_estrato_revista"}
  /\ w_ret' = [w_ret EXCEPT ![w] =
       IF w_ret[w] # None THEN w_ret[w]
       ELSE IF w_fn[w] = "calcular_estrato_conferencia"
            THEN Some(calcular_estrato_conferencia(w_arg[w]))
            ELSE Some(calcular_estrato_revista(w_arg[w]))]
  /\ w_pc' = [w_pc EXCEPT ![w] = "returned"]
  /\ UNCHANGED <<w_fn, w_arg, frames>>
  /\ UNCHANGED <<callVars, mainVars, wosVars, dupVars, confVars, retrVars, maskVars>>

\* a classifier evaluates its if/elif chain and returns
WReturnClassifier(w) ==
  /\ w_pc[w] = "called"
  /\ w_fn[w] \in {"calcular_estrato_conferencia", "calcular_estrato_revista"}
  /\ w_ret' = [w_ret EXCEPT ![w] =
       IF w_fn[w] = "calcular_estrato_conferencia"
       THEN Some(calcular_estrato_conferencia(w_arg[w]))
       ELSE Some(calcular_estrato_revista(w_arg[w]))]
  /\ w_pc' = [w_pc EXCEPT ![w] = "returned"]
  /\ UNCHANGED <<w_fn, w_arg, frames>>
  /\ UNCHANGED <<callVars, mainVars, wosVars, dupVars, confVars, retrVars, maskVars>>

\* estrato_map = {...}; valores = [...]
WValores(w) ==
  /\ w_pc[w] = "called"
  /\ w_fn[w] = "calcular_estrato_final"
  /\ frames' = [frames EXCEPT ![frame_of(w)].valores =
                  valores(w_arg[w][1], w_arg[w][2], w_arg[w][3])]
  /\ w_pc' = [w_pc EXCEPT ![w] = "valores"]
  /\ UNCHANGED <<w_fn, w_arg, w_ret>>
  /\ UNCHANGED <<callVars, mainVars, wosVars, dupVars, confVars, retrVars, maskVars>>

\* valores_validos = [(e, v) for e, v in valores if v < 999]
WFilter(w) ==
  /\ w_pc[w] = "valores"
  /\ frames' = [frames EXCEPT ![frame_of(w)].valores_validos =
                  valores_validos(frames[frame_of(w)].valores)]
  /\ w_pc' = [w_pc EXCEPT ![w] = "filtered"]
  /\ UNCHANGED <<w_fn, w_arg, w_ret>>
  /\ UNCHANGED <<callVars, mainVars, wosVars, dupVars, confVars, retrVars, maskVars>>

\* variant: no test for an empty list before min
WCheck_unguarded(w) ==
  /\ w_pc[w] = "filtered"
  /\ w_pc' = [w_pc EXCEPT ![w] = "min"]
  /\ UNCHANGED <<w_fn, w_arg, w_ret, frames>>
  /\ UNCHANGED <<callVars, mainVars, wosVars, dupVars, confVars, retrVars, maskVars>>

\* if not valores_validos: return "N/A"
WCheck(w) ==
  /\ w_pc[w] = "filtered"
  /\ IF frames[frame_of(w)].valores_validos = <<>>
     THEN /\ w_ret' = [w_ret EXCEPT ![w] = Some("N/A")]
          /\ w_pc' = [w_pc EXCEPT ![w] = "returned"]
          /\ frames' = [frames EXCEPT ![frame_of(w)] = EmptyFrame]
     ELSE /\ w_pc' = [w_pc EXCEPT ![w] = "min"]
          /\ UNCHANGED <<w_ret, frames>>
  /\ UNCHANGED <<w_fn, w_arg>>
  /\ UNCHANGED <<callVars, mainVars, wosVars, dupVars, confVars, retrVars, maskVars>>

\* melhor_estrato, _ = min(valores_validos, key=...); return melhor_estrato
\* (min raises ValueError on an empty list)
WMin(w) ==
  /\ w_pc[w] = "min"
  /\ IF frames[frame_of(w)].valores_validos = <<>>
     THEN /\ w_pc' = [w_pc EXCEPT ![w] = "raised"]
          /\ UNCHANGED w_ret
     ELSE /\ w_ret' = [w_ret EXCEPT ![w] =
                         min_by_key(frames[frame_of(w)].valores_validos)[1]]
          /\ w_pc' = [w_pc EXCEPT ![w] = "returned"]
  /\ frames' = [frames EXCEPT ![frame_of(w)] = EmptyFrame]
  /\ UNCHANGED <<w_fn, w_arg>>
  /\ UNCHANGED <<callVars, mainVars, wosVars, dupVars, confVars, retrVars, maskVars>>

\* the steps inside a call
WStep(w) ==
  WReturnClassifier(w) \/ WValores(w) \/ WFilter(w) \/ WCheck(w) \/ WMin(w)

NextWorkers ==
  \/ \E w \in Workers, h5_index \in WorkerH5Inputs : WCallConferencia(w, h5_index)
  \/ \E w \in Workers, percentil \in WorkerPctInputs : WCallRevista(w, percentil)
  \/ \E w \in Workers, e1 \in WorkerEstratoInputs, e2 \in WorkerEstratoInputs,
        e3 \in WorkerJifInputs : WCallFinal(w, e1, e2, e3)
  \/ \E w \in Workers : WReturnClassifier(w)
  \/ \E w \in Workers : WValores(w)
  \/ \E w \in Workers : WFilter(w)
  \/ \E w \in Workers : WCheck(w)
  \/ \E w \in Workers : WMin(w)

SpecWorkers == Init /\ [][NextWorkers]_vars

(***************************************************************************)
(* The two WebOfScienceAPIClient.buscar_revista_wos, request by request.   *)
(***************************************************************************)
\* lib_wos: the request parameters, None when the method returns before
\* session.get
lib_wos_params(issn, nome) ==
  IF IsBlank(issn) THEN None
  ELSE Some([search_type |-> "issn", param |-> "issn", value |-> strip(issn[1])])

\* lib_wos: the tuple returned; after the ISSN test the method is the one of
\* capes_metrics
lib_wos_buscar_revista_wos(issn, nome, resp) ==
  IF IsBlank(issn) THEN Falha("ISSN obrigatorio para busca WoS")
  ELSE buscar_revista_wos(issn, nome, resp)

\* capes_metrics: the request parameters
capes_metrics_params(issn, nome) ==
  Some([search_type |-> wos_query(issn, nome).search_type,
        param |-> "q", value |-> wos_query(issn, nome).query_param])

\* the arguments the clients are called with
WosIssnInputs ==
  { None, Some(<<>>), Some(<<" ">>),
    Some(<<"1", "2">>), Some(<<" ", "1", "2", " ">>) }
WosNomeInputs == {"Nature", "TPAMI"}

\* the answers of Web of Science to one request
WosCallResponses ==
  WosResponses \cup
  { [kind |-> "connection_error"], WosHttp(429, None), WosHttp(404, None),
    WosHttp(200, Some(<<>>)) }

LibWosCall(issn, nome) ==
  /\ wos_pc \in {"idle", "returned"}
  /\ wos_module' = "lib_wos"
  /\ wos_issn' = issn
  /\ wos_nome' = nome
  /\ wos_params' = lib_wos_params(issn, nome)
  /\ IF lib_wos_params(issn, nome) = None
     THEN /\ wos_pc' = "returned"
          /\ wos_result' = Some(lib_wos_buscar_revista_wos(issn, nome, None))
     ELSE /\ wos_pc' = "requested"
          /\ wos_result' = None
  /\ UNCHANGED <<callVars, mainVars, workerVars, dupVars, confVars, retrVars, maskVars>>

LibWosAnswer(resp) ==
  /\ wos_pc = "requested"
  /\ wos_module = "lib_wos"
  /\ wos_result' = Some(lib_wos_buscar_revista_wos(wos_issn, wos_nome, resp))
  /\ wos_pc' = "returned"
  /\ UNCHANGED <<wos_module, wos_issn, wos_nome, wos_params>>
  /\ UNCHANGED <<callVars, mainVars, workerVars, dupVars, confVars, retrVars, maskVars>>

CapesMetricsWosCall(issn, nome) ==
  /\ wos_pc \in {"idle", "returned"}
  /\ wos_module' = "capes_metrics"
  /\ wos_issn' = issn
  /\ wos_nome' = nome
  /\ wos_params' = capes_metrics_params(issn, nome)
  /\ wos_pc' = "requested"
  /\ wos_result' = None
  /\ UNCHANGED <<callVars, mainVars, workerVars, dupVars, confVars, retrVars, maskVars>>

CapesMetricsWosAnswer(resp) ==
  /\ wos_pc = "requested"
  /\ wos_module = "capes_metrics"
  /\ wos_result' = Some(buscar_revista_wos(wos_issn, wos_nome, resp))
  /\ wos_pc' = "returned"
  /\ UNCHANGED <<wos_module, wos_issn, wos_nome, wos_params>>
  /\ UNCHANGED <<callVars, mainVars, workerVars, dupVars, confVars, retrVars, maskVars>>

NextWos ==
  \/ \E issn \in WosIssnInputs, nome \in WosNomeInputs : LibWosCall(issn, nome)
  \/ \E resp \in WosCallResponses : LibWosAnswer(resp)
  \/ \E issn \in WosIssnInputs, nome \in WosNomeInputs : CapesMetricsWosCall(issn, nome)
  \/ \E resp \in WosCallResponses : CapesMetricsWosAnswer(resp)

SpecWos == Init /\ [][NextWos]_vars

(***************************************************************************)
(* The definitions of the core functions in capes_metrics.py, and calls    *)
(* made on both modules' definitions.                                      *)
(***************************************************************************)
capes_metrics_calcular_estrato_conferencia(h5_index) ==
  IF h5_index = None THEN "N/A"
  ELSE IF h5_index[1] >= 35 THEN "A1"
  ELSE IF h5_index[1] >= 25 THEN "A2"
  ELSE IF h5_index[1] >= 20 THEN "A3"
  ELSE IF h5_index[1] >= 15 THEN "A4"
  ELSE IF h5_index[1] >= 12 THEN "A5"
  ELSE IF h5_index[1] >= 9 THEN "A6"
  ELSE IF h5_index[1] >= 6 THEN "A7"
  ELSE IF h5_index[1] > 0 THEN "A8"
  ELSE "N/C"

\* percentil in tenths
capes_metrics_calcular_estrato_revista(percentil) ==
  IF percentil = None THEN "N/A"
  ELSE IF percentil[1] >= 875 THEN "A1"
  ELSE IF percentil[1] >= 750 THEN "A2"
  ELSE IF percentil[1] >= 625 THEN "A3"
  ELSE IF percentil[1] >= 500 THEN "A4"
  ELSE IF percentil[1] >= 375 THEN "A5"
  ELSE IF percentil[1] >= 250 THEN "A6"
  ELSE IF percentil[1] >= 125 THEN "A7"
  ELSE "A8"

capes_metrics_calcular_estrato_final(estrato_h5, estrato_percentil, estrato_jif) ==
  LET estrato_map ==
        [e \in EstratoInputs |->
           CASE e = Some("A1") -> 1 [] e = Some("A2") -> 2
             [] e = Some("A3") -> 3 [] e = Some("A4") -> 4
             [] e = Some("A5") -> 5 [] e = Some("A6") -> 6
             [] e = Some("A7") -> 7 [] e = Some("A8") -> 8
             [] e = Some("N/A") -> 999 [] e = Some("N/C") -> 999
             [] e = None -> 999]
      vals == << <<estrato_h5, estrato_map[estrato_h5]>>,
                 <<estrato_percentil, estrato_map[estrato_percentil]>>,
                 <<estrato_jif, estrato_map[estrato_jif]>> >>
      validos == SelectSeq(vals, LAMBDA par : par[2] < 999)
      melhor == CHOOSE k \in 1..Len(validos) :
                  /\ \A j \in 1..Len(validos) : validos[k][2] <= validos[j][2]
                  /\ \A j \in 1..(k - 1) : validos[j][2] > validos[k][2]
  IN IF validos = <<>> THEN "N/A" ELSE validos[melhor][1][1]

DupConferencia(h5_index) ==
  /\ dup_fn' = "calcular_estrato_conferencia"
  /\ dup_arg' = h5_index
  /\ dup_lib_aux' = calcular_estrato_conferencia(h5_index)
  /\ dup_capes_metrics' = capes_metrics_calcular_estrato_conferencia(h5_index)
  /\ UNCHANGED <<callVars, mainVars, workerVars, wosVars, confVars, retrVars, maskVars>>

DupRevista(percentil) ==
  /\ dup_fn' = "calcular_estrato_revista"
  /\ dup_arg' = percentil
  /\ dup_lib_aux' = calcular_estrato_revista(percentil)
  /\ dup_capes_metrics' = capes_metrics_calcular_estrato_revista(percentil)
  /\ UNCHANGED <<callVars, mainVars, workerVars, wosVars, confVars, retrVars, maskVars>>

DupFinal(estrato_h5, estrato_percentil, estrato_jif) ==
  /\ dup_fn' = "calcular_estrato_final"
  /\ dup_arg' = <<estrato_h5, estrato_percentil, estrato_jif>>
  /\ dup_lib_aux' = calcular_estrato_final(estrato_h5, estrato_percentil, estrato_jif)
  /\ dup_capes_metrics' =
       capes_metrics_calcular_estrato_final(estrato_h5, estrato_percentil, estrato_jif)
  /\ UNCHANGED <<callVars, mainVars, workerVars, wosVars, confVars, retrVars, maskVars>>

NextDup ==
  \/ \E h5_index \in H5Inputs : DupConferencia(h5_index)
  \/ \E percentil \in PctInputs : DupRevista(percentil)
  \/ \E e1 \in EstratoInputs, e2 \in EstratoInputs, e3 \in EstratoInputs :
       DupFinal(e1, e2, e3)

SpecDup == Init /\ [][NextDup]_vars

(***************************************************************************)
(* The retrieval calls of one venue: _buscar_venue_gsm, buscar_revista_wos *)
(* and buscar_revista_scopus, each as _delay, request, answer.             *)
(***************************************************************************)
\* the venue's ISSN and name
RetrIssnInputs == {None, Some(<<" ">>), Some(<<" ", "1", "2">>)}
RetrNomeInputs == {"Nature"}

\* the answers of Google Scholar to one request
GsmCallResponses ==
  GsmResponses \cup
  { [kind |-> "connection_error"], [kind |-> "exception"],
    GsmPage(FALSE, None),
    GsmPage(FALSE, Some(<<GsmHeader>>)),
    GsmPage(FALSE, Some(<<GsmHeader, GsmRow("n1", None), GsmRow("n2", Some(40))>>)),
    GsmPage(FALSE, Some(<<GsmHeader, GsmRow("n1", Some(7)), GsmHeader,
                          GsmRow("n2", Some(40))>>)) }

\* the answers of Web of Science to one request
WosRetrResponses ==
  WosCallResponses \cup
  { WosHttp(200, None), WosHttp(500, None),
    WosHttp(200, Some(<<WosJournal("j3", Some(30), None),
                        WosJournal("j4", Some(52), Some(900))>>)) }

\* the answers of Scopus to one request
ScopusRetrResponses ==
  ScopusResponses \cup
  { [kind |-> "exception", msg |-> "401"],
    [kind |-> "exception", msg |-> "429"],
    [kind |-> "exception", msg |-> "boom"],
    ScopusSerial(<<ScopusYear(None, <<ScopusRank("1702", Some(0))>>)>>),
    ScopusSerial(<<ScopusYear(Some(12), <<ScopusRank("1702", None),
                                          ScopusRank("1712", Some(0))>>)>>),
    ScopusSerial(<<ScopusYear(Some(45), <<ScopusRank("1702", Some(700)),
                                          ScopusRank("1712", Some(124)),
                                          ScopusRank("1710", Some(700))>>),
                   ScopusYear(Some(50), <<ScopusRank("1702", None),
                                          ScopusRank("1712", Some(910)),
                                          ScopusRank("1710", Some(333))>>)>>) }

RetrResponses(client) ==
  IF client = "gsm" THEN GsmCallResponses
  ELSE IF client = "wos" THEN WosRetrResponses
  ELSE ScopusRetrResponses

\* the exception a provider's answer makes the call's try block raise, None
\* when the block runs to a return
Raised(client, resp) ==
  IF client = "gsm" THEN
    IF resp.kind = "connection_error" THEN Some("RequestException")
    ELSE IF resp.kind = "exception" THEN Some("Exception")
    ELSE None
  ELSE IF client = "wos" THEN
    IF resp.kind = "timeout" THEN Some("Timeout")
    ELSE IF resp.kind = "connection_error" THEN Some("RequestException")
    ELSE IF resp.status_code \in {401, 429, 404} THEN None
    ELSE IF resp.status_code >= 400 THEN Some("RequestException")
    ELSE IF resp.data = None THEN Some("ValueError")
    ELSE None
  ELSE IF resp.kind = "exception" THEN Some("Exception") ELSE None

\* an exception class is caught by an except clause of the class or of a base
IsSubclass(class, base) ==
  \/ class = base
  \/ base = "Exception"
  \/ class = "Timeout" /\ base = "RequestException"

\* variant: the try blocks without their last `except Exception`
ExceptClauses_without_catch_all(client) ==
  IF client = "gsm" THEN {"RequestException"}
  ELSE IF client = "wos" THEN {"Timeout", "RequestException", "ValueError"}
  ELSE {}

\* the except clauses of each retrieval method
ExceptClauses(client) ==
  IF client = "gsm" THEN {"RequestException", "Exception"}
  ELSE IF client = "wos" THEN {"Timeout", "RequestException", "ValueError", "Exception"}
  ELSE {"Exception"}

Caught(client, class) == \E base \in ExceptClauses(client) : IsSubclass(class, base)

\* whether the method gets to its request: Scopus and the WoS client of
\* lib_wos return before it on a blank ISSN
SendsRequest(client, module, issn) ==
  IF client = "gsm" THEN TRUE
  ELSE IF client = "wos" THEN
    (IF module = "lib" THEN lib_wos_params(issn, "") # None ELSE TRUE)
  ELSE ~IsBlank(issn)

\* the tuple the method returns
RetrResult(client, module, issn, nome, resp) ==
  IF client = "gsm" THEN _buscar_venue_gsm(resp)
  ELSE IF client = "wos" THEN
    (IF module = "lib" THEN lib_wos_buscar_revista_wos(issn, nome, resp)
     ELSE buscar_revista_wos(issn, nome, resp))
  ELSE buscar_revista_scopus(issn, nome, resp)

\* main calls Google Scholar first for a venue, then WoS, then Scopus
PodeChamar(client) ==
  IF client = "gsm" THEN TRUE
  ELSE IF client = "wos" THEN r_client = "gsm"
  ELSE r_client \in {"gsm", "wos"}

\* a retrieval method is entered; a call of Google Scholar starts a venue
RCall(client, module, issn, nome) ==
  /\ r_pc \in {"idle", "returned"}
  /\ PodeChamar(client)
  /\ r_client' = client
  /\ r_module' = module
  /\ r_issn' = IF client = "gsm" THEN issn ELSE r_issn
  /\ r_nome' = IF client = "gsm" THEN nome ELSE r_nome
  /\ r_enviados' = IF client = "gsm" THEN [c \in Providers |-> 0] ELSE r_enviados
  /\ r_delays' = 0
  /\ r_requests' = 0
  /\ r_resp' = None
  /\ r_result' = None
  /\ r_pc' = "called"
  /\ UNCHANGED <<callVars, mainVars, workerVars, wosVars, dupVars, confVars, maskVars>>

\* self._delay()
RDelay ==
  /\ r_pc = "called"
  /\ r_delays' = r_delays + 1
  /\ r_pc' = "delayed"
  /\ UNCHANGED <<r_client, r_module, r_issn, r_nome, r_requests, r_resp, r_result,
                 r_enviados>>
  /\ UNCHANGED <<callVars, mainVars, workerVars, wosVars, dupVars, confVars, maskVars>>

\* the ISSN test, then session.get / SerialTitleISSN
RSend ==
  /\ r_pc = "delayed"
  /\ IF SendsRequest(r_client, r_module, r_issn)
     THEN /\ r_requests' = r_requests + 1
          /\ r_enviados' = [r_enviados EXCEPT ![r_client] = @ + 1]
          /\ r_pc' = "requested"
          /\ UNCHANGED r_result
     ELSE /\ r_result' = Some(RetrResult(r_client, r_module, r_issn, r_nome, None))
          /\ r_pc' = "returned"
          /\ UNCHANGED <<r_requests, r_enviados>>
  /\ UNCHANGED <<r_client, r_module, r_issn, r_nome, r_delays, r_resp>>
  /\ UNCHANGED <<callVars, mainVars, workerVars, wosVars, dupVars, confVars, maskVars>>

\* variant: a request that failed is sent once more
RAnswer_retries(resp) ==
  /\ r_pc = "requested"
  /\ r_resp' = Some(resp)
  /\ IF Raised(r_client, resp) # None /\ r_requests < 2
     THEN /\ r_pc' = "delayed"
          /\ UNCHANGED r_result
     ELSE /\ r_result' = Some(RetrResult(r_client, r_module, r_issn, r_nome, resp))
          /\ r_pc' = "returned"
  /\ UNCHANGED <<r_client, r_module, r_issn, r_nome, r_delays, r_requests, r_enviados>>
  /\ UNCHANGED <<callVars, mainVars, workerVars, wosVars, dupVars, confVars, maskVars>>

\* the provider answers: the method returns its tuple, from the try block or
\* from the except clause that catches what the block raised
RAnswer(resp) ==
  /\ r_pc = "requested"
  /\ r_resp' = Some(resp)
  /\ IF Raised(r_client, resp) # None /\ ~Caught(r_client, Raised(r_client, resp)[1])
     THEN /\ r_pc' = "raised"
          /\ UNCHANGED r_result
     ELSE /\ r_result' = Some(RetrResult(r_client, r_module, r_issn, r_nome, resp))
          /\ r_pc' = "returned"
  /\ UNCHANGED <<r_client, r_module, r_issn, r_nome, r_delays, r_requests, r_enviados>>
  /\ UNCHANGED <<callVars, mainVars, workerVars, wosVars, dupVars, confVars, maskVars>>

NextRetr ==
  \/ \E client \in Providers, module \in {"lib", "capes_metrics"},
        issn \in RetrIssnInputs, nome \in RetrNomeInputs :
       RCall(client, module, issn, nome)
  \/ RDelay
  \/ RSend
  \/ \E resp \in RetrResponses(r_client) : RAnswer(resp)

SpecRetr == Init /\ [][NextRetr]_vars

(***************************************************************************)
(* _mask_api_key and the authentication-failure message of the WoS and     *)
(* Scopus clients.                                                         *)
(***************************************************************************)
\* the longest key built
MaxKeyLen == 9

\* the characters of a key
KeyAlphabet == {"a", "*"}

\* the keys a client is built with: __init__ rejects the empty key
ApiKeyInputs == UNION { [1..n -> KeyAlphabet] : n \in 1..MaxKeyLen }

\* "*" * n, empty for n <= 0
Stars(n) == [k \in 1..n |-> "*"]

\* key[-4:]
Last4(key) == SubSeq(key, IF Len(key) > 4 THEN Len(key) - 3 ELSE 1, Len(key))

\* variant: without the test for short keys
_mask_api_key_unguarded(key) == Stars(Len(key) - 4) \o Last4(key)

\* _mask_api_key
_mask_api_key(key) ==
  IF Len(key) <= 8 THEN <<"*", "*", "*", "*">>
  ELSE Stars(Len(key) - 4) \o Last4(key)

\* the f-string of the 401 return, as its literal parts around {masked}
AuthMessage(client, masked_key) ==
  [ antes |-> "Autenticação falhou (chave: ",
    chave |-> masked_key,
    depois |-> IF client = "wos" THEN "). Verifique WOS_API_KEY"
               ELSE "). Verifique SCOPUS_API_KEY" ]

\* __init__: self.api_key = api_key
MaskInit(client, key) ==
  /\ mask_pc = "start"
  /\ mask_client' = client
  /\ self_api_key' = key
  /\ mask_pc' = "built"
  /\ UNCHANGED <<masked, mask_erro>>
  /\ UNCHANGED <<callVars, mainVars, workerVars, wosVars, dupVars, confVars, retrVars>>

\* the provider answers 401: masked = self._mask_api_key(self.api_key)
MaskKey ==
  /\ mask_pc = "built"
  /\ masked' = _mask_api_key(self_api_key)
  /\ mask_pc' = "masked"
  /\ UNCHANGED <<mask_client, self_api_key, mask_erro>>
  /\ UNCHANGED <<callVars, mainVars, workerVars, wosVars, dupVars, confVars, retrVars>>

\* return (None, None, None, None, f"Autenticação falhou (chave: {masked})...")
AuthFailure ==
  /\ mask_pc = "masked"
  /\ mask_erro' = Some(AuthMessage(mask_client, masked))
  /\ mask_pc' = "returned"
  /\ UNCHANGED <<mask_client, self_api_key, masked>>
  /\ UNCHANGED <<callVars, mainVars, workerVars, wosVars, dupVars, confVars, retrVars>>

NextMask ==
  \/ \E client \in {"wos", "scopus"}, key \in ApiKeyInputs : MaskInit(client, key)
  \/ MaskKey
  \/ AuthFailure

SpecMask == Init /\ [][NextMask]_vars

(***************************************************************************)
(* Properties.                                                             *)
(***************************************************************************)
\* the defined tiers, best first
DefinedTiers == {"A1", "A2", "A3", "A4", "A5", "A6", "A7", "A8"}

\* the rank of a defined tier, 1 (A1, best) to 8 (A8, worst)
Rank(t) ==
  CASE t = "A1" -> 1 [] t = "A2" -> 2 [] t = "A3" -> 3 [] t = "A4" -> 4
    [] t = "A5" -> 5 [] t = "A6" -> 6 [] t = "A7" -> 7 [] t = "A8" -> 8

\* the labels from best to worst, with the label below A8 of the index ladder
TierOrder == <<"A1", "A2", "A3", "A4", "A5", "A6", "A7", "A8", "N/C">>

\* the latest call
IsConf == fn = "calcular_estrato_conferencia"
IsRev == fn = "calcular_estrato_revista"
IsFinal == fn = "calcular_estrato_final"

\* the call before the latest
PrevIsConf == prev # None /\ prev[1].fn = "calcular_estrato_conferencia"
PrevIsRev == prev # None /\ prev[1].fn = "calcular_estrato_revista"
PrevIsFinal == prev # None /\ prev[1].fn = "calcular_estrato_final"

\* C1: every present H5-index gets exactly the tier of its band: A1 from 35,
\* A2 on 25..34, A3 on 20..24, A4 on 15..19, A5 on 12..14, A6 on 9..11,
\* A7 on 6..8, A8 on 1..5, and N/C at 0 and below.
C1_IndexLadder ==
  (IsConf /\ arg # None) =>
    LET h == arg[1] IN
      /\ ret \in DefinedTiers \cup {"N/C"}
      /\ (ret = "A1") <=> (h >= 35)
      /\ (ret = "A2") <=> (h >= 25 /\ h < 35)
      /\ (ret = "A3") <=> (h >= 20 /\ h < 25)
      /\ (ret = "A4") <=> (h >= 15 /\ h < 20)
      /\ (ret = "A5") <=> (h >= 12 /\ h < 15)
      /\ (ret = "A6") <=> (h >= 9 /\ h < 12)
      /\ (ret = "A7") <=> (h >= 6 /\ h < 9)
      /\ (ret = "A8") <=> (h > 0 /\ h < 6)
      /\ (ret = "N/C") <=> (h <= 0)

\* a call at the top bound and, before it, one in a middle band
C1_Witness ==
  /\ IsConf /\ arg = Some(35) /\ ret = "A1"
  /\ PrevIsConf /\ prev[1].arg = Some(13) /\ prev[1].ret = "A5"

\* C2: every present percentile gets exactly the tier of its 12.5-point band:
\* A1 from 87.5, A2 on [75, 87.5), ..., A7 on [12.5, 25), A8 below 12.5,
\* negative values included.
C2_PercentileLadder ==
  (IsRev /\ arg # None) =>
    LET p == arg[1] IN
      /\ ret \in DefinedTiers
      /\ (ret = "A1") <=> (p >= 875)
      /\ \A k \in 2..7 : (ret = TierOrder[k]) <=> (p >= 125 * (8 - k) /\ p < 125 * (9 - k))
      /\ (ret = "A8") <=> (p < 125)

\* a call exactly on the A2 bound and, before it, a negative value
C2_Witness ==
  /\ IsRev /\ arg = Some(750) /\ ret = "A2"
  /\ PrevIsRev /\ prev[1].arg # None /\ prev[1].arg[1] < 0 /\ prev[1].ret = "A8"

\* the labels among the three inputs that are defined tiers
DefinedOf(triple) ==
  {triple[i][1] : i \in {j \in 1..3 : triple[j] # None /\ triple[j][1] \in DefinedTiers}}

\* C3: the reconciler returns N/A when no input is a defined tier, and otherwise
\* a defined input such that no defined input is better; with the examples
\* (A2,A1,A3) -> A1, (A5,None,None) -> A5, (None,None,None) -> N/A,
\* (N/C,A7,N/A) -> A7.
C3_ReconcileBest ==
  IsFinal =>
    /\ IF DefinedOf(arg) = {}
       THEN ret = "N/A"
       ELSE /\ ret \in DefinedOf(arg)
            /\ \A t \in DefinedOf(arg) : Rank(ret) <= Rank(t)
    /\ (arg = <<Some("A2"), Some("A1"), Some("A3")>>) => (ret = "A1")
    /\ (arg = <<Some("A5"), None, None>>) => (ret = "A5")
    /\ (arg = <<None, None, None>>) => (ret = "N/A")
    /\ (arg = <<Some("N/C"), Some("A7"), Some("N/A")>>) => (ret = "A7")

\* the best tier stands after a worse one, among sentinels
C3_Witness ==
  /\ IsFinal /\ arg = <<Some("A2"), Some("A1"), Some("A3")>> /\ ret = "A1"
  /\ PrevIsFinal /\ prev[1].arg = <<Some("A3"), Some("A2"), Some("A1")>>

\* one triple is the other in some order
Reordered(t1, t2) == \E o \in Orders : t2 = <<t1[o[1]], t1[o[2]], t1[o[3]]>>

\* C4: two calls of the reconciler on the same three labels in different orders
\* return the same label.
C4_ReconcilePermutation ==
  (IsFinal /\ PrevIsFinal /\ Reordered(prev[1].arg, arg)) => (ret = prev[1].ret)

\* three different inputs, two of them defined tiers, called in two orders
C4_Witness ==
  /\ IsFinal /\ PrevIsFinal
  /\ prev[1].arg = <<Some("A6"), Some("N/C"), Some("A4")>>
  /\ arg = <<Some("N/C"), Some("A4"), Some("A6")>>
  /\ ret = "A4"

\* C5: either classifier returns N/A exactly when its input is absent.
C5_AbsentIsNA ==
  (IsConf \/ IsRev) => ((ret = "N/A") <=> (arg = None))

\* both classifiers called on an absent input
C5_Witness ==
  /\ IsRev /\ arg = None /\ ret = "N/A"
  /\ PrevIsConf /\ prev[1].arg = None /\ prev[1].ret = "N/A"

\* the inclusive lower bounds of the index bands A1..A8
IndexBounds == <<35, 25, 20, 15, 12, 9, 6, 1>>

\* C6: the index classifier is exact at the band edges: 35 -> A1, 34 -> A2,
\* 6 -> A7, 5 -> A8, 1 -> A8, 0 and -5 -> N/C; every lower bound b gets its
\* tier and b-1 the next worse one.
C6_IndexBoundaries ==
  (IsConf /\ arg # None) =>
    LET h == arg[1] IN
      /\ (h = 35) => (ret = "A1")
      /\ (h = 34) => (ret = "A2")
      /\ (h = 6) => (ret = "A7")
      /\ (h = 5) => (ret = "A8")
      /\ (h = 1) => (ret = "A8")
      /\ (h = 0) => (ret = "N/C")
      /\ (h = 0 - 5) => (ret = "N/C")
      /\ \A k \in 1..8 :
           /\ (h = IndexBounds[k]) => (ret = TierOrder[k])
           /\ (h = IndexBounds[k] - 1) => (ret = TierOrder[k + 1])

\* a bound and the value just below it, in two calls
C6_Witness ==
  /\ IsConf /\ arg = Some(5) /\ ret = "A8"
  /\ PrevIsConf /\ prev[1].arg = Some(6) /\ prev[1].ret = "A7"

\* C7: the percentile classifier is exact at the band edges: 87.5 -> A1,
\* 87.4 -> A2, 12.5 -> A7, 12.4 -> A8, 0 -> A8; a value on a lower bound gets
\* that bound's tier and a value just below it the next worse tier.
C7_PercentileBoundaries ==
  (IsRev /\ arg # None) =>
    LET p == arg[1] IN
      /\ (p = 875) => (ret = "A1")
      /\ (p = 874) => (ret = "A2")
      /\ (p = 125) => (ret = "A7")
      /\ (p = 124) => (ret = "A8")
      /\ (p = 0) => (ret = "A8")
      /\ \A k \in 1..7 :
           /\ (p = 125 * (8 - k)) => (ret = TierOrder[k])
           /\ (p < 125 * (8 - k) /\ p >= 125 * (8 - k) - PctSpread)
                => (ret = TierOrder[k + 1])

\* 87.4 after 87.5
C7_Witness ==
  /\ IsRev /\ arg = Some(874) /\ ret = "A2"
  /\ PrevIsRev /\ prev[1].arg = Some(875) /\ prev[1].ret = "A1"

\* C8: the percentile classifier never returns N/C; a present value, negative
\* or above 100 included, gets a tier in A1..A8, and N/A means the value is
\* absent.
C8_PercentileAlwaysTier ==
  IsRev =>
    /\ ret # "N/C"
    /\ (arg # None) => (ret \in DefinedTiers)
    /\ (ret = "N/A") => (arg = None)

\* a negative value after a value above 100
C8_Witness ==
  /\ IsRev /\ arg # None /\ arg[1] < 0 /\ ret = "A8"
  /\ PrevIsRev /\ prev[1].arg # None /\ prev[1].arg[1] > 1000 /\ prev[1].ret = "A1"

\* C9: of two present percentiles, the greater or equal one gets a tier that
\* is the same or better.
C9_PercentileMonotone ==
  (IsRev /\ PrevIsRev /\ arg # None /\ prev[1].arg # None
     /\ arg[1] >= prev[1].arg[1])
    => (Rank(ret) <= Rank(prev[1].ret))

\* two percentiles in different bands
C9_Witness ==
  /\ IsRev /\ PrevIsRev /\ arg # None /\ prev[1].arg # None
  /\ arg[1] > prev[1].arg[1]
  /\ ret = "A3" /\ prev[1].ret = "A4"

\* C10: every positive H5-index gets a tier in A1..A8, and of two positive
\* values the greater or equal one gets a tier that is the same or better.
C10_IndexMonotone ==
  /\ (IsConf /\ arg # None /\ arg[1] > 0) => (ret \in DefinedTiers)
  /\ (IsConf /\ PrevIsConf /\ arg # None /\ prev[1].arg # None
        /\ prev[1].arg[1] > 0 /\ arg[1] >= prev[1].arg[1])
       => (Rank(ret) <= Rank(prev[1].ret))

\* the least positive value, then a value two bands up
C10_Witness ==
  /\ IsConf /\ PrevIsConf
  /\ prev[1].arg = Some(1) /\ prev[1].ret = "A8"
  /\ arg = Some(10) /\ ret = "A6"

\* C11: the reconciler never returns N/C: its result is a defined tier or N/A,
\* and it is N/A whenever none of the three inputs is a defined tier.
C11_FinalNeverNC ==
  IsFinal =>
    /\ ret # "N/C"
    /\ ret \in DefinedTiers \cup {"N/A"}
    /\ (\A i \in 1..3 : arg[i] \in {None, Some("N/A"), Some("N/C")}) => (ret = "N/A")

\* a call whose inputs are N/C and other non-defined values
C11_Witness ==
  /\ IsFinal /\ arg = <<Some("N/C"), None, Some("N/A")>> /\ ret = "N/A"
  /\ PrevIsFinal /\ prev[1].arg = <<Some("N/C"), Some("N/C"), Some("N/A")>>

\* t2 is t1 with one N/C replaced by N/A or by None
Substituted(t1, t2) ==
  \E i \in 1..3 : t1[i] = Some("N/C") /\ \E e \in NoTier : t2 = [t1 EXCEPT ![i] = e]

\* C12: replacing an input N/C by N/A or by None, in any position, leaves the
\* result of the reconciler unchanged.
C12_SentinelsInterchangeable ==
  (IsFinal /\ PrevIsFinal /\ Substituted(prev[1].arg, arg)) => (ret = prev[1].ret)

\* an N/C index tier beside a defined tier, then the same with the N/C absent
C12_Witness ==
  /\ IsFinal /\ PrevIsFinal
  /\ prev[1].arg = <<Some("N/C"), Some("A6"), None>> /\ prev[1].ret = "A6"
  /\ arg = <<None, Some("A6"), None>> /\ ret = "A6"

\* the records appended so far
Registros == {resultados_rev[k] : k \in 1..Len(resultados_rev)}

\* a journal with citation percentile 70, impact-factor percentile 90, no index
Scenario70_90(r) ==
  r.h5_index = None /\ r.percentil = Some(700) /\ r.jif_percentil = Some(900)

\* C13 as stated: such a journal gets the per-source tiers A2 (citation
\* percentile) and A1 (impact-factor percentile) and the final tier A1.
C13_Original ==
  \A r \in Registros :
    Scenario70_90(r) =>
      /\ r.estrato_percentil = Some("A2")
      /\ r.estrato_jif = Some("A1")
      /\ r.estrato_final = Some("A1")

\* C13, amended: such a journal gets the per-source tiers A3 (citation
\* percentile 70 lies in [62.5, 75)) and A1 (impact-factor percentile), and the
\* final tier A1.
C13_EndToEnd ==
  \A r \in Registros :
    Scenario70_90(r) =>
      /\ r.estrato_percentil = Some("A3")
      /\ r.estrato_jif = Some("A1")
      /\ r.estrato_final = Some("A1")

\* the scenario's journal has been collected
C13_Witness ==
  \E r \in Registros : Scenario70_90(r) /\ r.estrato_final = Some("A1")

\* the sources main consults for one journal, in order
FontesAtivas ==
  <<"gsm">> \o (IF wos_client THEN <<"wos">> ELSE <<>>)
            \o (IF scopus_client THEN <<"scopus">> ELSE <<>>)

\* the final tier a record's three signals call for
FinalDosSinais(r) ==
  calcular_estrato_final(Some(calcular_estrato_conferencia(r.h5_index)),
                         Some(calcular_estrato_revista(r.percentil)),
                         Some(calcular_estrato_revista(r.jif_percentil)))

\* C14: a journal's estrato_final is set only once Google Scholar, then WoS if
\* enabled, then Scopus if enabled, have been consulted; it is the
\* reconciliation of the tiers of h5_index, percentil and jif_percentil; a
\* source that is off or gives no number adds no defined tier; with the three
\* signals absent it is N/A.
C14_FinalAfterSources ==
  /\ (resultado # None /\ resultado[1].estrato_final # None)
       => (consultas = FontesAtivas)
  /\ \A r \in Registros \cup (IF resultado = None THEN {} ELSE {resultado[1]}) :
       /\ (~wos_client) => (r.jif_percentil = None)
       /\ (~scopus_client) => (r.percentil = None)
       /\ (r.estrato_final # None) =>
            /\ r.estrato_final = Some(FinalDosSinais(r))
            /\ (r.percentil = None) => (r.estrato_percentil = None)
            /\ (r.jif_percentil = None) => (r.estrato_jif = None)
            /\ (r.h5_index = None /\ r.percentil = None /\ r.jif_percentil = None)
                 => (r.estrato_final = Some("N/A"))

\* a journal whose three sources were consulted: a non-positive index, and two
\* percentiles of which the better decides
C14_Witness ==
  /\ m_pc = "append"
  /\ consultas = <<"gsm", "wos", "scopus">>
  /\ resultado[1].h5_index = Some(0)
  /\ resultado[1].estrato_percentil = Some("A3")
  /\ resultado[1].estrato_jif = Some("A1")
  /\ resultado[1].estrato_final = Some("A1")

\* the numeric signals of a record, and the tiers recorded for them
Sinais(r) == <<r.h5_index, r.percentil, r.jif_percentil>>
Estratos(r) == <<r.estrato_h5, r.estrato_percentil, r.estrato_jif, r.estrato_final>>

\* C17: two collected records with the same numeric signals carry the same
\* per-source tiers and the same final tier, whatever their error description.
C17_ErrorsDoNotLeak ==
  \A r1 \in Registros, r2 \in Registros :
    (Sinais(r1) = Sinais(r2)) => (Estratos(r1) = Estratos(r2))

\* two records with equal signals, one retrieved with an error and one without
C17_Witness ==
  \E r1 \in Registros, r2 \in Registros :
    /\ Sinais(r1) = Sinais(r2)
    /\ r1.erro # None /\ r2.erro = None
    /\ r1.estrato_final = Some("A3")

\* C18 as stated: once buscar_revista has created a journal's record, no step
\* changes a field of it.
C18_Original ==
  [][(resultado # None /\ resultado' # None
        /\ resultado'[1].sigla = resultado[1].sigla)
       => (resultado' = resultado)]_vars

\* the fields buscar_revista leaves at their defaults
Campos == <<"citescore", "percentil", "area_tematica", "estrato_percentil", "jif",
            "jif_percentil", "categoria_wos", "estrato_jif", "estrato_final",
            "url_scopus", "url_wos">>

\* C18, amended: each journal's record is created fresh by buscar_revista (its
\* WoS, Scopus and final-tier fields empty, nothing kept from the journal
\* before), is completed in place by the WoS, Scopus and final-tier steps of
\* that journal's iteration, and never changes once it has been appended to
\* resultados_rev.
C18_FrozenOnceAppended ==
  [][/\ \A k \in 1..Len(resultados_rev) :
          Len(resultados_rev') >= k /\ resultados_rev'[k] = resultados_rev[k]
     /\ (m_pc = "gsm" /\ m_pc' = "wos") =>
          /\ resultado'[1].sigla = revistas[i_rev].sigla
          /\ \A c \in 1..Len(Campos) : resultado'[1][Campos[c]] = None]_vars

\* the second journal's record with its WoS fields filled, the first one appended
C18_Witness ==
  /\ Len(resultados_rev) = 1
  /\ resultados_rev[1].jif_percentil # None
  /\ m_pc = "scopus"
  /\ resultado[1].sigla # resultados_rev[1].sigla
  /\ resultado[1].jif_percentil # None

\* the value the function called by worker w returns when evaluated alone
ResultAlone(w) ==
  IF w_fn[w] = "calcular_estrato_conferencia"
  THEN calcular_estrato_conferencia(w_arg[w])
  ELSE IF w_fn[w] = "calcular_estrato_revista"
  THEN calcular_estrato_revista(w_arg[w])
  ELSE calcular_estrato_final(w_arg[w][1], w_arg[w][2], w_arg[w][3])

\* C15: referential transparency: whatever calls came before, two finished
\* calls of the same core function with the same argument returned the same
\* label.
C15_SameInputSameOutput ==
  \A w \in Workers, v \in Workers :
    (/\ w_pc[w] = "returned" /\ w_pc[v] = "returned"
     /\ w_fn[w] = w_fn[v] /\ w_arg[w] = w_arg[v])
    => w_ret[w] = w_ret[v]

C15_Witness ==
  /\ w_pc["w1"] = "returned" /\ w_pc["w2"] = "returned"
  /\ w_fn["w1"] = "calcular_estrato_final" /\ w_fn["w2"] = "calcular_estrato_final"
  /\ w_arg["w1"] = <<Some("A2"), Some("N/C"), Some("A1")>>
  /\ w_arg["w2"] = w_arg["w1"]
  /\ w_ret["w1"] = Some("A1") /\ w_ret["w2"] = Some("A1")

\* the position of a line inside a call
LineRank(pc) ==
  CASE pc = "called" -> 1
    [] pc = "valores" -> 2
    [] pc = "filtered" -> 3
    [] pc = "min" -> 4
    [] OTHER -> 5

\* C16: totality: no call of a core function raises, a call in progress can
\* always take its next step and only moves forward through its lines, and a
\* finished call has returned a label.
C16_Total ==
  /\ [](\A w \in Workers :
          /\ w_pc[w] # "raised"
          /\ w_pc[w] = "returned" => w_ret[w] \in {Some(l) : l \in Labels}
          /\ w_pc[w] \in {"called", "valores", "filtered", "min"} => ENABLED WStep(w))
  /\ [][\A w \in Workers :
          (w_pc[w] \in {"called", "valores", "filtered", "min"} /\ w_pc'[w] # w_pc[w])
          => LineRank(w_pc'[w]) > LineRank(w_pc[w])]_vars

C16_Witness ==
  /\ w_pc["w1"] = "returned"
  /\ w_fn["w1"] = "calcular_estrato_final"
  /\ w_arg["w1"] = <<None, Some("N/C"), None>>
  /\ w_ret["w1"] = Some("N/A")
  /\ w_pc["w2"] = "returned"
  /\ w_fn["w2"] = "calcular_estrato_conferencia"
  /\ w_arg["w2"] = None
  /\ w_ret["w2"] = Some("N/A")

\* C19: under every interleaving of the workers' steps, a finished call has
\* returned what the same call returns when it runs alone.
C19_InterleavingIndependent ==
  \A w \in Workers :
    w_pc[w] = "returned" => w_ret[w] = Some(ResultAlone(w))

C19_Witness ==
  /\ w_pc["w1"] = "returned"
  /\ w_fn["w1"] = "calcular_estrato_final"
  /\ w_arg["w1"] = <<Some("A2"), None, Some("A1")>>
  /\ w_ret["w1"] = Some("A1")
  /\ w_pc["w2"] = "min"
  /\ w_arg["w2"] = <<Some("N/C"), Some("A2"), None>>
  /\ frames["w2"].valores_validos = << <<Some("A2"), 2>> >>

\* C20: buscar_revista_wos sends a request for every call: by the stripped
\* ISSN when there is one, by the journal name when the ISSN is absent or
\* blank.
C20_NameFallback ==
  wos_pc # "idle" =>
    /\ wos_params # None
    /\ IF IsBlank(wos_issn)
       THEN /\ wos_params[1].search_type = "title"
            /\ wos_params[1].value = wos_nome
       ELSE /\ wos_params[1].search_type = "issn"
            /\ wos_params[1].value = strip(wos_issn[1])

\* the rank of a label returned by the reconciler, with N/A below A8
RankWithNA(t) == IF t = "N/A" THEN Rank("A8") + 1 ELSE Rank(t)

\* C30: the reconciler's label for three sources is ranked the same as or
\* better than its label for the first two alone (N/A ranked below A8), and
\* reconciling a returned label with nothing else returns that label again.
C30_MoreSourcesNeverWorse ==
  (IsFinal /\ PrevIsFinal) =>
    /\ (arg = <<prev[1].arg[1], prev[1].arg[2], None>>)
         => RankWithNA(prev[1].ret) <= RankWithNA(ret)
    /\ (arg = <<Some(prev[1].ret), None, None>>) => (ret = prev[1].ret)

\* three sources, then the first two alone, which is also the returned label
\* reconciled alone
C30_Witness ==
  /\ IsFinal /\ PrevIsFinal
  /\ prev[1].arg = <<Some("A4"), None, Some("A6")>> /\ prev[1].ret = "A4"
  /\ arg = <<Some("A4"), None, None>> /\ ret = "A4"

\* C26: for every input, each core function defined in capes_metrics.py
\* returns the label that the function of the same name in lib_aux.py returns.
C26_DuplicatesAgree ==
  dup_fn # "" => dup_capes_metrics = dup_lib_aux

\* the reconciler of both modules on two defined tiers and an N/C
C26_Witness ==
  /\ dup_fn = "calcular_estrato_final"
  /\ dup_arg = <<Some("A2"), Some("N/C"), Some("A1")>>
  /\ dup_lib_aux = "A1"
  /\ dup_capes_metrics = "A1"

\* the records main holds: those appended and the one of the current iteration
RegistrosDaRodada ==
  {resultados_rev[k] : k \in 1..Len(resultados_rev)}
    \cup (IF resultado = None THEN {} ELSE {resultado[1]})

\* C22: when --wos (resp. --scopus) is given and the key is missing, empty or
\* blank, main has no client for that provider, goes on to the journals, sends
\* no request to the provider, leaves that source's value and tier absent in
\* every record, and ends with one record per journal.
C22_NoKeyNoClient ==
  m_pc # "setup" =>
    /\ (args.wos /\ IsBlank(env.WOS_API_KEY)) =>
         /\ ~wos_client
         /\ \A k \in 1..Len(consultas) : consultas[k] # "wos"
         /\ \A r \in RegistrosDaRodada :
              r.jif = None /\ r.jif_percentil = None /\ r.estrato_jif = None
         /\ m_pc = "done" => Len(resultados_rev) = Len(revistas)
    /\ (args.scopus /\ IsBlank(env.SCOPUS_API_KEY)) =>
         /\ ~scopus_client
         /\ \A k \in 1..Len(consultas) : consultas[k] # "scopus"
         /\ \A r \in RegistrosDaRodada :
              r.citescore = None /\ r.percentil = None /\ r.estrato_percentil = None
         /\ m_pc = "done" => Len(resultados_rev) = Len(revistas)

\* a finished run with --wos and a blank WoS key, and Scopus in use
C22_Witness ==
  /\ m_pc = "done"
  /\ args.wos /\ env.WOS_API_KEY = Some(<<" ">>)
  /\ args.scopus /\ scopus_client
  /\ Len(revistas) = MaxRevistas /\ Len(resultados_rev) = MaxRevistas
  /\ resultados_rev[1].jif = None /\ resultados_rev[1].estrato_jif = None
  /\ resultados_rev[1].estrato_percentil = Some("A3")
  /\ resultados_rev[1].estrato_final = Some("A3")

\* the fields of a journal record
CamposRevista == DOMAIN RevistaMetrics(<<>>, <<>>, None)

\* the fields the WoS step and the Scopus step assign
CamposWos == {"jif", "jif_percentil", "categoria_wos", "url_wos", "estrato_jif"}
CamposScopus ==
  {"citescore", "percentil", "area_tematica", "url_scopus", "estrato_percentil"}

\* C29: in the journal loop the WoS step changes no field of the record other
\* than jif, jif_percentil, categoria_wos, url_wos and estrato_jif, and the
\* Scopus step none other than citescore, percentil, area_tematica, url_scopus
\* and estrato_percentil; in particular h5_index, h5_median, estrato_h5,
\* url_gsm and erro stay as Google Scholar left them.
C29_StepFrames ==
  [][/\ (m_pc = "wos" /\ m_pc' = "scopus") =>
          \A f \in CamposRevista \ CamposWos : resultado'[1][f] = resultado[1][f]
     /\ (m_pc = "scopus" /\ m_pc' = "final") =>
          \A f \in CamposRevista \ CamposScopus : resultado'[1][f] = resultado[1][f]]_vars

\* Google Scholar answered, WoS and Scopus were consulted and both failed
C29_Witness ==
  /\ m_pc = "final"
  /\ consultas = <<"gsm", "wos", "scopus">>
  /\ resultado[1].h5_index = Some(40)
  /\ resultado[1].estrato_h5 = Some("A1")
  /\ resultado[1].erro = None
  /\ resultado[1].jif = None /\ resultado[1].url_wos = None
  /\ resultado[1].citescore = None /\ resultado[1].url_scopus = None

\* the records appended so far are those of the first venues of the list, in
\* the order of the list
EmOrdem(resultados, venues) ==
  /\ Len(resultados) <= Len(venues)
  /\ \A k \in 1..Len(resultados) :
       /\ resultados[k].sigla = venues[k].sigla
       /\ resultados[k].nome_completo = venues[k].nome_completo

\* one record per venue, in configuration order, in both loops
UmPorVenue ==
  /\ EmOrdem(resultados_conf, conferencias)
  /\ EmOrdem(resultados_rev, revistas)
  /\ m_pc = "conf" => Len(resultados_conf) = i_conf - 1
  /\ m_pc = "save_conf" => Len(resultados_conf) = Len(conferencias)
  /\ m_pc \in {"gsm", "wos", "scopus", "final", "append"} =>
       Len(resultados_rev) = i_rev - 1
  /\ m_pc = "done" => Len(resultados_rev) = Len(revistas)

\* C28 as stated: one record per venue in configuration order, and every
\* retrieval error of a venue (Google Scholar, WoS or Scopus) is recorded in
\* that venue's record.
C28_Original ==
  /\ UmPorVenue
  /\ (m_pc \in {"final", "append"} /\ falhas # {}) => resultado[1].erro # None

\* C28, amended: both loops hold one record per venue in configuration order
\* and end with as many records as venues whatever the retrieval outcomes; a
\* Google Scholar error is recorded in the venue's record (erro), while a WoS
\* or Scopus error is not recorded in it and only leaves that source's value,
\* percentile and tier absent.
C28_OneRecordPerVenue ==
  /\ UmPorVenue
  /\ (m_pc = "save_conf" \/ (m_pc = "conf" /\ i_conf > 1)) =>
       LET r == resultados_conf[Len(resultados_conf)] IN
         ("gsm" \in falhas) <=> (r.erro # None)
  /\ m_pc \in {"wos", "scopus", "final", "append"} =>
       LET r == resultado[1] IN
         /\ ("gsm" \in falhas) <=> (r.erro # None)
         /\ (m_pc # "wos" /\ "wos" \in falhas) =>
              r.jif = None /\ r.jif_percentil = None /\ r.estrato_jif = None
         /\ (m_pc \in {"final", "append"} /\ "scopus" \in falhas) =>
              r.citescore = None /\ r.percentil = None /\ r.estrato_percentil = None

\* a finished journal loop whose first venue failed at Google Scholar and
\* whose last venue failed at WoS and Scopus only
C28_Witness ==
  /\ m_pc = "append"
  /\ i_rev = MaxRevistas /\ Len(revistas) = MaxRevistas
  /\ Len(resultados_rev) = MaxRevistas - 1
  /\ resultados_rev[1].erro # None
  /\ falhas = {"wos", "scopus"}
  /\ resultado[1].erro = None
  /\ resultado[1].estrato_final = Some("A1")

\* a retrieval call has returned
Retornou(client) == r_pc = "returned" /\ r_client = client

\* C21 as stated: buscar_revista_scopus returns the highest percentile among
\* the rank entries of the most recent CiteScore year and the subject code of
\* that entry; when that year has a rank entry the percentil is present and
\* is at least the percentile of every entry.
C21_BestPercentile ==
  (Retornou("scopus") /\ r_resp # None /\ r_resp[1].kind = "serial"
     /\ r_resp[1].citescoreyearinfolist # <<>>) =>
    LET cs_info == r_resp[1].citescoreyearinfolist
        latest == cs_info[Len(cs_info)]
        percentil == r_result[1][2]
        area_tematica == r_result[1][3]
    IN latest.rank # <<>> =>
         /\ percentil # None
         /\ \A k \in 1..Len(latest.rank) :
              latest.rank[k].percentile # None
                => percentil[1] >= latest.rank[k].percentile[1]
         /\ \E k \in 1..Len(latest.rank) :
              /\ latest.rank[k].percentile = percentil
              /\ area_tematica = Some(latest.rank[k].subjectcode)

\* the data rows of a Google Scholar result table
LinhasDeDados(tabela) == SelectSeq(tabela, LAMBDA linha_tr : linha_tr.td)

\* C23: a retrieval that succeeds takes its metrics from the first match only:
\* from the first data row of the Google Scholar table (rows without data
\* cells skipped) and from the first element of the WoS data list, whatever
\* the later candidates hold.
C23_FirstMatchOnly ==
  /\ (Retornou("gsm") /\ r_result[1][5] = None) =>
       LET linha == LinhasDeDados(r_resp[1].tabela[1])[1] IN
         /\ r_result[1][1] = linha.nome
         /\ r_result[1][2] = linha.celulas[1].valor
         /\ r_result[1][3] = linha.celulas[2].valor
  /\ (Retornou("wos") /\ r_result[1][5] = None) =>
       LET journal == r_resp[1].data[1][1] IN
         /\ r_result[1][1] = journal.metrics.jif
         /\ r_result[1][2] = journal.metrics.jif_percentile
         /\ r_result[1][3] = journal.metrics.category

\* Google Scholar answered with two data rows separated by a row without data
\* cells
C23_Witness ==
  /\ Retornou("gsm")
  /\ r_result[1][5] = None
  /\ Len(LinhasDeDados(r_resp[1].tabela[1])) = 2
  /\ Len(r_resp[1].tabela[1]) = 4
  /\ r_result[1][2] = Some(7)

\* C24: in every retrieval call _delay runs exactly once, before the request;
\* a call sends at most one request and does not send a failed request again,
\* so each provider receives at most one request per venue.
C24_DelayOnceRequestOnce ==
  /\ [](/\ r_delays <= 1
        /\ r_requests <= 1
        /\ \A c \in Providers : r_enviados[c] <= 1
        /\ r_pc \in {"delayed", "requested", "returned", "raised"} => r_delays = 1
        /\ r_pc \in {"idle", "called"} => r_requests = 0)
  /\ [][r_requests' > r_requests => (r_delays = 1 /\ r_delays' = 1)]_vars

\* the third call for a venue returned an error after its only request
C24_Witness ==
  /\ Retornou("scopus")
  /\ r_enviados = [c \in Providers |-> 1]
  /\ r_delays = 1 /\ r_requests = 1
  /\ r_resp = Some([kind |-> "exception", msg |-> "429"])
  /\ r_result[1][5] # None

\* C27: every retrieval call returns a 5-tuple and never raises, and when the
\* error element of the tuple is set, the value and the percentile or index
\* elements are None.
C27_FailureIsAbsence ==
  /\ r_pc # "raised"
  /\ r_pc = "returned" =>
       /\ Len(r_result[1]) = 5
       /\ r_result[1][5] # None =>
            /\ r_result[1][1] = None
            /\ r_result[1][2] = None
            /\ r_client = "gsm" => r_result[1][3] = None

\* Scopus raised an exception of no expected kind and the call returned
C27_Witness ==
  /\ Retornou("scopus")
  /\ r_resp = Some([kind |-> "exception", msg |-> "boom"])
  /\ r_result = Some(Falha("Erro Scopus"))

\* the positions of a key that the mask must not show
Ocultas(key) == IF Len(key) > 8 THEN 1..(Len(key) - 4) ELSE 1..Len(key)

====
